---------------------------- MODULE Spec2Model ----------------------------
(***************************************************************************)
(* A model of the JetStream client core of next_nats.js (jsclient.ts, the  *)
(* part of src/unnamed/part_000 from line 278 to line 1325).               *)
(*                                                                         *)
(* Three specifications share the variables of this module:                *)
(*   SpecPublish  JetStreamClientImpl.publish and its retry loop           *)
(*   SpecPull     JetStreamPullSubscriptionImpl.pull and its heartbeat     *)
(*                monitor                                                  *)
(*   SpecSub      a push subscription (ordered or not) made by subscribe() *)
(*                with its delivery pipeline, heartbeat monitor and the    *)
(*                ordered-consumer recreate protocol                       *)
(* Each specification moves its own variables and leaves the others at the *)
(* value its Init gives them.                                              *)
(***************************************************************************)
EXTENDS Integers, Sequences, FiniteSets

VARIABLES
    pub,        \* one publish() call: its options, loop counter and result
    psub,       \* what pull() adds to a subscription: calls and requests
    opts,       \* the consumer options given to subscribe()
    sub,        \* the raw subscription and the typed iterator over it
    info,       \* JetStreamSubscriptionInfo of the subscription
    monitor,    \* JetStreamSubscriptionImpl.monitor and its timers
    nc,         \* the connection: connected, inboxes made, messages sent
    srv,        \* the broker: the consumer and the pending create requests
    app         \* what the application has observed

vars == <<pub, psub, opts, sub, info, monitor, nc, srv, app>>

subVars == <<opts, sub, info, monitor, nc, srv, app>>

(***************************************************************************)
(* Bounds of the model.                                                    *)
(***************************************************************************)
MaxRetries == 3

(***************************************************************************)
(* publish(): src/unnamed/part_000 lines 452-518                           *)
(***************************************************************************)

\* The outcomes of nc.request that reject: the transport's "503" (no
\* responders) and two other error codes.
ErrorCodes == {"503", "TIMEOUT", "CONNECTION_CLOSED"}

\* The replies nc.request can resolve with, as parseJsResponse reads them:
\* a publish ack {stream, seq, duplicate?}.
PubAckReplies ==
    [stream : {"", "S"}, seq : 1..2, duplicate : {"absent", "true", "false"}]

\* opts.retries as the caller gives it: 0 stands for "not given".
RetriesOpts == 0..MaxRetries

\* let r: Msg, not yet assigned.
NoReply == [stream |-> "", seq |-> 0, duplicate |-> "absent"]

NoResult == [kind |-> "none", code |-> "", stream |-> "", seq |-> 0, duplicate |-> FALSE]

PubIdle ==
    [pc |-> "off", optRetries |-> 0, retries |-> 0, i |-> 0, requests |-> 0,
     log |-> <<>>, r |-> NoReply, result |-> NoResult]

\* A slip: retries counted as the attempts after the first one.
ResolveRetriesExtra(r) == r + 1

\* retries = retries || 1
ResolveRetries(r) == IF r = 0 THEN 1 ELSE r

PubInit ==
    \E r \in RetriesOpts :
        pub = [PubIdle EXCEPT !.pc = "idle", !.optRetries = r]

\* The head of the for loop: with i < retries the body issues a request, and
\* otherwise the loop is left with r unset.
LoopHead(p) ==
    IF p.i < p.retries
    THEN [p EXCEPT !.pc = "request", !.requests = @ + 1]
    ELSE [p EXCEPT !.pc = "done", !.result = [NoResult EXCEPT !.kind = "error", !.code = "TypeError"]]

\* publish() up to its first await: the headers and the request options are
\* built, retries is resolved and the first request is on the wire.
Publish ==
    /\ pub.pc = "idle"
    /\ pub' = LoopHead([pub EXCEPT !.retries = ResolveRetries(pub.optRetries), !.i = 0])
    /\ UNCHANGED <<psub, subVars>>

\* pa.duplicate = pa.duplicate ? pa.duplicate : false
NormalizeDuplicate(d) == d = "true"

\* A slip: the ack is returned without the check of its stream.
ParseAckNoCheck(r) ==
    [kind |-> "ack", code |-> "", stream |-> r.stream, seq |-> r.seq,
     duplicate |-> (r.duplicate = "true")]

\* After the loop: the reply is parsed, an ack with stream === "" is an
\* InvalidAck, and duplicate is normalised.
ParseAck(r) ==
    IF r.stream = ""
    THEN [NoResult EXCEPT !.kind = "error", !.code = "INVALID_ACK"]
    ELSE [kind |-> "ack", code |-> "", stream |-> r.stream, seq |-> r.seq,
          duplicate |-> NormalizeDuplicate(r.duplicate)]

\* The request resolved: break, then the code after the loop.
RequestOk ==
    /\ pub.pc = "request"
    /\ \E r \in PubAckReplies :
        pub' = [pub EXCEPT !.pc = "done", !.log = Append(@, "ok"), !.r = r,
                           !.result = ParseAck(r)]
    /\ UNCHANGED <<psub, subVars>>

\* A slip: every failure is retried while attempts remain.
ShouldRetryAnyError(code, i, retries) == i + 1 < retries

\* ne.code === "503" && i + 1 < retries
ShouldRetry(code, i, retries) == code = "503" /\ i + 1 < retries

\* The request rejected: the catch clause.
RequestFail ==
    /\ pub.pc = "request"
    /\ \E code \in ErrorCodes :
        pub' = IF ShouldRetry(code, pub.i, pub.retries)
               THEN [pub EXCEPT !.pc = "delay", !.log = Append(@, code)]
               ELSE [pub EXCEPT !.pc = "done", !.log = Append(@, code),
                                !.result = [NoResult EXCEPT !.kind = "error", !.code = code]]
    /\ UNCHANGED <<psub, subVars>>

\* delay(retry_delay) is over: i++, and the head of the loop again.
DelayDone ==
    /\ pub.pc = "delay"
    /\ pub' = LoopHead([pub EXCEPT !.i = @ + 1])
    /\ UNCHANGED <<psub, subVars>>

PubNext == Publish \/ RequestOk \/ RequestFail \/ DelayDone

(***************************************************************************)
(* Subscriptions: bounds, constants and the state operations work on.      *)
(***************************************************************************)
MaxStream == 2      \* the stream holds the sequences 1..MaxStream
MaxRestarts == 2    \* consumer recreates followed
MaxHb == 1          \* heartbeat frames counted between two recreates
MaxMissed == 3      \* ticks without a frame followed
MaxErrs == 2        \* errors handed to a callback followed

\* const opts = { cancelAfter: 0, maxOut: 2 }
MaxOut == 2

AckPolicies == {"NotSet", "None", "All", "Explicit"}

\* The objects an operation of a subscription reads and writes, as one value.
S ==
    [sub |-> sub, info |-> info, mon |-> monitor, nc |-> nc, srv |-> srv, app |-> app]

Set(s) ==
    /\ sub' = s.sub
    /\ info' = s.info
    /\ monitor' = s.mon
    /\ nc' = s.nc
    /\ srv' = s.srv
    /\ app' = s.app

(***************************************************************************)
(* Frames and their classification (jsutil.ts, after sections 4.1, 6 and 7 *)
(* of the design document).                                                *)
(***************************************************************************)
DataMsg(sseq, dseq) ==
    [kind |-> "data", code |-> 0, description |-> "", sseq |-> sseq, dseq |-> dseq, last |-> 0]

\* Headers only, code 100, description "Idle Heartbeat", Nats-Last-Consumer.
HeartbeatMsg(last) ==
    [kind |-> "status", code |-> 100, description |-> "Idle Heartbeat", sseq |-> 0,
     dseq |-> 0, last |-> last]

\* newJsErrorMsg(409, `${Js409Errors.IdleHeartbeatMissed}: ${v}`, subject)
IdleHeartbeatMissedMsg(v) ==
    [kind |-> "status", code |-> 409, description |-> "IdleHeartbeatMissed", sseq |-> 0,
     dseq |-> 0, last |-> v]

\* A flow-control request: headers only, code 100, and a reply subject the
\* server expects an empty message on.
FlowControlMsg(reply) ==
    [kind |-> "status", code |-> 100, description |-> "FlowControl Request", sseq |-> 0,
     dseq |-> 0, last |-> 0, reply |-> reply]

\* An idle heartbeat of a stalled consumer: Nats-Consumer-Stalled names the
\* subject the server expects an empty message on.
StalledHeartbeatMsg(last, subject) ==
    [kind |-> "status", code |-> 100, description |-> "Idle Heartbeat", sseq |-> 0,
     dseq |-> 0, last |-> last, stalled |-> subject]

\* msg.headers.get(JsHeaders.ConsumerStalledHdr); 0 is "", no such header.
StalledOf(m) == IF "stalled" \in DOMAIN m THEN m.stalled ELSE 0

\* msg.reply; 0 is no reply subject.
ReplyOf(m) == IF "reply" \in DOMAIN m THEN m.reply ELSE 0

\* A status frame of the server: headers only.
StatusMsg(code, description) ==
    [kind |-> "status", code |-> code, description |-> description, sseq |-> 0,
     dseq |-> 0, last |-> 0]

\* No frame handed to the subscription yet.
NoFrame ==
    [kind |-> "none", code |-> 0, description |-> "", sseq |-> 0, dseq |-> 0, last |-> 0]

NullErr == [code |-> "", message |-> "", seq |-> 0]

\* The 409 descriptions that end a pull (section 4.1).
Terminal409 ==
    {"MaxBatchExceeded", "MaxExpiresExceeded", "MaxBytesExceeded",
     "MaxMessageSizeExceeded", "ConsumerDeleted", "ConsumerIsPushBased"}

\* The status frames that answer a pull request: no messages, request
\* timeout, and the 409s.
StatusFrames ==
    {<<404, "NoMessages">>, <<408, "RequestTimeout">>} \cup
    {<<409, d>> : d \in Terminal409 \cup {"MaxWaitingExceeded"}}

\* The error a frame stands for, or null: a frame with a payload or with a
\* code below 300 is none; missed idle heartbeats have an error code of
\* their own (ErrorCode.JetStreamIdleHeartBeat, as in fetch's monitor).
checkJsError(m) ==
    IF m.kind = "data" \/ m.code < 300 THEN NullErr
    ELSE IF m.code = 404 THEN [code |-> "404", message |-> m.description, seq |-> m.last]
    ELSE IF m.code = 408 THEN [code |-> "408", message |-> m.description, seq |-> m.last]
    ELSE IF m.code = 409 /\ m.description = "IdleHeartbeatMissed"
         THEN [code |-> "JetStreamIdleHeartBeat", message |-> m.description, seq |-> m.last]
    ELSE IF m.code = 409 THEN [code |-> "409", message |-> m.description, seq |-> m.last]
    ELSE [code |-> "other", message |-> m.description, seq |-> m.last]

\* setMaxWaitingToFail(tf) adds MaxWaitingExceeded to the terminal ones; the
\* flag is global to the client (nc.maxWaitingToFail here).
isTerminal409(ne) ==
    /\ ne.code = "409"
    /\ \/ ne.message \in Terminal409
       \/ ne.message = "MaxWaitingExceeded" /\ nc.maxWaitingToFail

\* Code 100 is flow control or heartbeat; a heartbeat is told by its description.
isFlowControlMsg(m) == m.kind = "status" /\ m.code = 100

isHeartbeatMsg(m) == isFlowControlMsg(m) /\ m.description = "Idle Heartbeat"

\* A slip: every error frame hidden from iterators.
hideAllJsErrors(ne) == NullErr

\* A slip: every 409 is kept, terminal or not.
hideOnly404And408(ne) ==
    IF ne = NullErr THEN NullErr
    ELSE IF ne.code \in {"404", "408"} THEN NullErr
    ELSE ne

hideNonTerminalJsErrors(ne) ==
    IF ne = NullErr THEN NullErr
    ELSE IF ne.code \in {"404", "408"} THEN NullErr
    ELSE IF ne.code = "409" THEN (IF isTerminal409(ne) THEN ne ELSE NullErr)
    ELSE ne

\* [err, tm]: msg stands for toJsMsg(msg) when hasMsg.
iterMsgAdapter(err, msg) ==
    IF err # NullErr THEN [err |-> err, hasMsg |-> FALSE]
    ELSE IF checkJsError(msg) # NullErr
         THEN [err |-> hideNonTerminalJsErrors(checkJsError(msg)), hasMsg |-> FALSE]
    ELSE [err |-> NullErr, hasMsg |-> TRUE]

cbMsgAdapter(err, msg) ==
    IF err # NullErr THEN [err |-> err, hasMsg |-> FALSE]
    ELSE IF checkJsError(msg) # NullErr
         THEN [err |-> checkJsError(msg), hasMsg |-> FALSE]
    ELSE [err |-> NullErr, hasMsg |-> TRUE]

(***************************************************************************)
(* The idle-heartbeat monitor (idleheartbeat.ts, after section 4.2 of the  *)
(* design document). live and liveAuto count the interval and the          *)
(* auto-cancel timers of the subscription that are running in the event    *)
(* loop; timer and autoCancelTimer are the handles the monitor holds.      *)
(***************************************************************************)
NoMonitor ==
    [set |-> FALSE, timer |-> FALSE, autoCancelTimer |-> FALSE, interval |-> 0,
     cancelAfter |-> 0, missed |-> 0, live |-> 0, liveAuto |-> 0]

MonitorCancel(m) ==
    [m EXCEPT !.live = IF m.timer THEN @ - 1 ELSE @,
              !.liveAuto = IF m.autoCancelTimer THEN @ - 1 ELSE @,
              !.timer = FALSE, !.autoCancelTimer = FALSE, !.missed = 0]

MonitorWork(m) == [m EXCEPT !.missed = 0]

MonitorSchedule(m) ==
    [m EXCEPT !.autoCancelTimer = IF m.cancelAfter > 0 THEN TRUE ELSE @,
              !.liveAuto = IF m.cancelAfter > 0 THEN @ + 1 ELSE @,
              !.timer = TRUE, !.live = @ + 1]

\* new IdleHeartbeat(interval, handler, {maxOut, cancelAfter})
NewIdleHeartbeat(m, interval, cancelAfter) ==
    MonitorSchedule([m EXCEPT !.set = TRUE, !.timer = FALSE, !.autoCancelTimer = FALSE,
                              !.interval = interval, !.cancelAfter = cancelAfter,
                              !.missed = 0])

\* change(interval, cancelAfter): reconfigure and restart.
MonitorChange(m, interval, cancelAfter) ==
    MonitorSchedule(MonitorCancel([m EXCEPT !.interval = interval,
                                            !.cancelAfter = cancelAfter]))

(***************************************************************************)
(* The typed subscription and its queued iterator (typedsub.ts and         *)
(* queued_iterator.ts, after sections 4.3, 4.4 and 9 of the design         *)
(* document).                                                              *)
(***************************************************************************)

\* sub.unsubscribe(): the raw subscription closes; its closed promise
\* cancels the monitor (the constructor of JetStreamSubscriptionImpl) and
\* stops the iterator.
unsubscribe(s) ==
    IF s.sub.closed THEN s
    ELSE [s EXCEPT !.sub.closed = TRUE, !.sub.done = TRUE, !.mon = MonitorCancel(@)]

\* QueuedIterator.stop(err): the error is kept for the next read; the stop
\* of an iterator that the application reads also cancels the subscription.
stop(s, err) ==
    IF s.sub.done THEN s
    ELSE IF s.sub.noIterator THEN [s EXCEPT !.sub.done = TRUE, !.sub.err = err]
    ELSE unsubscribe([s EXCEPT !.sub.done = TRUE, !.sub.err = err])

\* The consumer that delivers to the subscription: the start sequence of its
\* config, the next stream sequence it looks at, its last delivery sequence.
NoConsumer == [exists |-> FALSE, start |-> 0, cursor |-> 0, dseq |-> 0]

\* nci._resub(this.sub, newDeliver): the subscription listens on newDeliver
\* from now on, where no consumer delivers yet.
resub(s, newDeliver) ==
    [s EXCEPT !.sub.subject = newDeliver, !.srv.cons = NoConsumer]

(***************************************************************************)
(* JetStreamSubscriptionImpl                                               *)
(***************************************************************************)

\* A slip: the heartbeat and flow-control counts survive the recreate.
resetOrderedConsumerKeepCounts(s, sseq) ==
    IF s.sub.closed THEN s
    ELSE LET newDeliver == s.nc.inboxes + 1
             t == resub([s EXCEPT !.nc.inboxes = newDeliver], newDeliver)
             config == [t.info.config EXCEPT !.deliver_subject = newDeliver,
                                             !.deliver_policy = "StartSequence",
                                             !.opt_start_seq = sseq]
         IN  [t EXCEPT !.info.ordered_consumer_sequence.delivery_seq = 0,
                       !.info.flow_control.consumer_restarts = @ + 1,
                       !.info.deliver = newDeliver,
                       !.info.config = config,
                       !.srv.reqs = @ \cup {[inbox |-> newDeliver, config |-> config]}]

\* _resetOrderedConsumer(sseq), to the request it sends.
resetOrderedConsumer(s, sseq) ==
    IF s.sub.closed THEN s
    ELSE LET newDeliver == s.nc.inboxes + 1
             t == resub([s EXCEPT !.nc.inboxes = newDeliver], newDeliver)
             config == [t.info.config EXCEPT !.deliver_subject = newDeliver,
                                             !.deliver_policy = "StartSequence",
                                             !.opt_start_seq = sseq]
         IN  [t EXCEPT !.info.ordered_consumer_sequence.delivery_seq = 0,
                       !.info.flow_control.heartbeat_count = 0,
                       !.info.flow_control.fc_count = 0,
                       !.info.flow_control.consumer_restarts = @ + 1,
                       !.info.deliver = newDeliver,
                       !.info.config = config,
                       !.srv.reqs = @ \cup {[inbox |-> newDeliver, config |-> config]}]

\* A slip: the stalled-consumer subject is never published to.
unstallNever(s, msg) == s

\* nci.publish(rm) when the heartbeat names a stalled-consumer subject.
unstall(s, msg) ==
    IF StalledOf(msg) # 0 THEN [s EXCEPT !.nc.published = Append(@, StalledOf(msg))]
    ELSE s

\* A slip: the recreate asks for the last sequence seen, not the one after it.
checkHbOrderConsumerSameSeq(s, msg) ==
    LET ordered == s.info.ordered_consumer_sequence
        t == [unstall(s, msg) EXCEPT !.info.flow_control.heartbeat_count = @ + 1]
    IN  IF msg.last # ordered.delivery_seq
        THEN resetOrderedConsumer(t, ordered.stream_seq)
        ELSE t

\* _checkHbOrderConsumer(msg); it returns false always.
checkHbOrderConsumer(s, msg) ==
    LET ordered == s.info.ordered_consumer_sequence
        t == [unstall(s, msg) EXCEPT !.info.flow_control.heartbeat_count = @ + 1]
    IN  IF msg.last # ordered.delivery_seq
        THEN resetOrderedConsumer(t, ordered.stream_seq + 1)
        ELSE t

\* A slip: a message out of sequence is recorded and accepted like any other.
checkOrderedConsumerNoGapCheck(s, jm) ==
    [s |-> [s EXCEPT !.info.ordered_consumer_sequence =
                         [stream_seq |-> jm.sseq, delivery_seq |-> jm.dseq]],
     ok |-> TRUE]

\* _checkOrderedConsumer(jm): the state after it and what it returns.
checkOrderedConsumer(s, jm) ==
    LET ordered == s.info.ordered_consumer_sequence
    IN  IF jm.dseq # ordered.delivery_seq + 1
        THEN [s |-> resetOrderedConsumer(s, ordered.stream_seq + 1), ok |-> FALSE]
        ELSE [s |-> [s EXCEPT !.info.ordered_consumer_sequence =
                                  [stream_seq |-> jm.sseq, delivery_seq |-> jm.dseq]],
              ok |-> TRUE]

\* A slip: what _checkOrderedConsumer returns is dropped, every data message
\* is ingested.
ingestionFnKeepAll(ordered, s, jm) ==
    LET s1 == IF checkJsError(jm) = NullErr /\ s.mon.set
              THEN [s EXCEPT !.mon = MonitorWork(@)] ELSE s
    IN  IF isHeartbeatMsg(jm)
        THEN IF ordered
             THEN [s |-> checkHbOrderConsumer(s1, jm), ingest |-> FALSE, protocol |-> TRUE]
             ELSE [s |-> [s1 EXCEPT !.info.flow_control.heartbeat_count = @ + 1],
                   ingest |-> TRUE, protocol |-> TRUE]
        ELSE IF isFlowControlMsg(jm)
        THEN [s |-> [s1 EXCEPT !.info.flow_control.fc_count = @ + 1],
              ingest |-> TRUE, protocol |-> TRUE]
        ELSE IF ordered
        THEN [s |-> checkOrderedConsumer(s1, jm).s, ingest |-> TRUE, protocol |-> FALSE]
        ELSE [s |-> s1, ingest |-> TRUE, protocol |-> FALSE]

\* JetStreamClientImpl.ingestionFn(ordered): the state after the filter and
\* its result {ingest, protocol}.
ingestionFn(ordered, s, jm) ==
    LET s1 == IF checkJsError(jm) = NullErr /\ s.mon.set
              THEN [s EXCEPT !.mon = MonitorWork(@)] ELSE s
    IN  IF isHeartbeatMsg(jm)
        THEN IF ordered
             THEN [s |-> checkHbOrderConsumer(s1, jm), ingest |-> FALSE, protocol |-> TRUE]
             ELSE [s |-> [s1 EXCEPT !.info.flow_control.heartbeat_count = @ + 1],
                   ingest |-> TRUE, protocol |-> TRUE]
        ELSE IF isFlowControlMsg(jm)
        THEN [s |-> [s1 EXCEPT !.info.flow_control.fc_count = @ + 1],
              ingest |-> TRUE, protocol |-> TRUE]
        ELSE IF ordered
        THEN LET r == checkOrderedConsumer(s1, jm)
             IN  [s |-> r.s, ingest |-> r.ok, protocol |-> FALSE]
        ELSE [s |-> s1, ingest |-> TRUE, protocol |-> FALSE]

\* msg.respond(): an empty message to the reply subject, if there is one.
respond(s, m) ==
    IF ReplyOf(m) # 0 THEN [s EXCEPT !.nc.replies = Append(@, ReplyOf(m))] ELSE s

\* A slip: the flow-control frame is dropped without the reply.
protocolFilterFnNoReply(s, jm, ingest) ==
    [s |-> s, ok |-> ~isFlowControlMsg(jm)]

\* so.protocolFilterFn(jm, ingest): flow-control frames (heartbeats among
\* them) are answered and kept from the application.
protocolFilterFn(s, jm, ingest) ==
    IF isFlowControlMsg(jm)
    THEN [s |-> IF ~ingest THEN respond(s, jm) ELSE s, ok |-> FALSE]
    ELSE [s |-> s, ok |-> TRUE]

\* The application is handed jm (the callback is called, or the iterator
\* yields): app keeps what it was handed and how many recreates the
\* subscription had made by then.
yield(s, jm) ==
    [s EXCEPT !.app.yielded = Append(@, jm),
              !.app.restarts = s.info.flow_control.consumer_restarts]

\* autoAckJsMsg, when it is the dispatched hook: data.ack().
dispatchedFn(s, jm) ==
    IF s.sub.autoAck THEN [s EXCEPT !.nc.acks = @ + 1] ELSE s

\* QueuedIterator.push(v)
push(s, tm) ==
    IF s.sub.done THEN s
    ELSE LET r == ingestionFn(s.sub.ordered, s, tm)
         IN  IF r.ingest THEN [r.s EXCEPT !.sub.yields = Append(@, tm)] ELSE r.s

\* TypedSubscription.callback(e, msg): the raw subscription's callback of a
\* subscription that is iterated.
iterCallback(s, e, msg) ==
    LET a == iterMsgAdapter(e, msg)
        t == IF a.err # NullErr THEN stop(s, a.err) ELSE s
    IN  IF a.hasMsg THEN push(t, msg) ELSE t

\* The raw subscription's callback of a subscription with a user callback.
userCallback(s, e, msg) ==
    LET a == cbMsgAdapter(e, msg)
    IN  IF a.err # NullErr THEN [s EXCEPT !.app.errs = Append(@, a.err)]
        ELSE LET r == ingestionFn(s.sub.ordered, s, msg)
             IN  IF r.ingest
                 THEN LET f == protocolFilterFn(r.s, msg, FALSE)
                      IN  IF f.ok THEN dispatchedFn(yield(f.s, msg), msg) ELSE f.s
                 ELSE r.s

\* this.sub.callback(e, msg)
subCallback(s, e, msg) ==
    IF s.sub.noIterator THEN userCallback(s, e, msg) ELSE iterCallback(s, e, msg)

\* A slip: the ordered branch without the look at the connection.
hbHandlerIgnoreConnection(s, v) ==
    IF ~s.info.ordered
    THEN [s |-> subCallback(s, NullErr, IdleHeartbeatMissedMsg(v)), ret |-> ~s.sub.noIterator]
    ELSE [s |-> resetOrderedConsumer(s, s.info.ordered_consumer_sequence.stream_seq + 1),
          ret |-> FALSE]

\* A slip: the handler tells the monitor to stop whatever the subscription.
hbHandlerAlwaysStops(s, v) ==
    IF ~s.info.ordered
    THEN [s |-> subCallback(s, NullErr, IdleHeartbeatMissedMsg(v)), ret |-> TRUE]
    ELSE IF ~s.nc.connected
    THEN [s |-> s, ret |-> TRUE]
    ELSE [s |-> resetOrderedConsumer(s, s.info.ordered_consumer_sequence.stream_seq + 1),
          ret |-> TRUE]

\* The handler _setupHbMonitoring gives the monitor: the state after it and
\* what it returns (true: the monitor is to stop).
hbHandler(s, v) ==
    IF ~s.info.ordered
    THEN [s |-> subCallback(s, NullErr, IdleHeartbeatMissedMsg(v)), ret |-> ~s.sub.noIterator]
    ELSE IF ~s.nc.connected
    THEN [s |-> s, ret |-> FALSE]
    ELSE [s |-> resetOrderedConsumer(s, s.info.ordered_consumer_sequence.stream_seq + 1),
          ret |-> FALSE]

\* _setupHbMonitoring(millis, cancelAfter)
setupHbMonitoring(s, millis, cancelAfter) ==
    [s EXCEPT !.mon = NewIdleHeartbeat(@, millis, cancelAfter)]

\* _maybeSetupHbMonitoring()
maybeSetupHbMonitoring(s) ==
    IF s.info.config.idle_heartbeat > 0
    THEN setupHbMonitoring(s, s.info.config.idle_heartbeat, 0)
    ELSE s

(***************************************************************************)
(* JetStreamClientImpl.subscribe                                           *)
(***************************************************************************)

\* jsi.config.idle_heartbeat || nanos(5000), in milliseconds
OrderedIdleHeartbeat == 5000

\* The options a caller can give: deliver_subject says whether one is given,
\* idle_heartbeat is 0 when none is given.
SubscribeOpts ==
    [ordered : BOOLEAN, ack_policy : AckPolicies, mack : BOOLEAN, cb : BOOLEAN,
     deliver_subject : BOOLEAN, idle_heartbeat : {0, OrderedIdleHeartbeat}]

\* No call made yet.
NoOpts ==
    [ordered |-> FALSE, ack_policy |-> "NotSet", mack |-> FALSE, cb |-> FALSE,
     deliver_subject |-> FALSE, idle_heartbeat |-> 0]

NoConfig ==
    [deliver_subject |-> 0, ack_policy |-> "NotSet", deliver_policy |-> "All",
     opt_start_seq |-> 0, idle_heartbeat |-> 0]

NoInfo ==
    [ordered |-> FALSE,
     ordered_consumer_sequence |-> [stream_seq |-> 0, delivery_seq |-> 0],
     flow_control |-> [heartbeat_count |-> 0, fc_count |-> 0, consumer_restarts |-> 0],
     deliver |-> 0, config |-> NoConfig, name |-> 0]

NoSub ==
    [pc |-> "new", error |-> "", subject |-> 0, closed |-> FALSE, noIterator |-> FALSE,
     ordered |-> FALSE, autoAck |-> FALSE, done |-> FALSE, err |-> NullErr, yields |-> <<>>]

\* The subject a caller gives as deliver_subject; inboxes are 1, 2, ...
UserSubject == 0

\* The error _processOptions throws for ordered options, "" when it accepts.
orderedError(o) ==
    IF o.ack_policy \notin {"NotSet", "None"}
    THEN "ordered consumer: ack_policy can only be set to 'none'"
    ELSE IF o.deliver_subject
    THEN "ordered consumer: deliver_subject cannot be set"
    ELSE ""

\* _processOptions(subject, opts): the subscription info it returns; inbox is
\* the next fresh inbox.
processOptions(o, inbox) ==
    LET given == [NoConfig EXCEPT !.ack_policy = o.ack_policy,
                                  !.idle_heartbeat = o.idle_heartbeat,
                                  !.deliver_subject = IF o.deliver_subject THEN UserSubject ELSE -1]
        c1 == IF o.ordered
              THEN [given EXCEPT !.deliver_subject = inbox,
                                 !.ack_policy = "None",
                                 !.idle_heartbeat = IF @ = 0 THEN OrderedIdleHeartbeat ELSE @]
              ELSE given
        c2 == IF c1.ack_policy = "NotSet" THEN [c1 EXCEPT !.ack_policy = "All"] ELSE c1
    IN  [NoInfo EXCEPT !.ordered = o.ordered,
                       !.config = c2,
                       !.deliver = IF c2.deliver_subject # -1 THEN c2.deliver_subject ELSE inbox]

\* A slip: the ack policy is not looked at.
installsAutoAckAlways(mack, ack_policy) == ~mack

\* Whether _buildTypedSubscriptionOpts installs autoAckJsMsg as dispatchedFn.
installsAutoAck(mack, ack_policy) == ~mack /\ ack_policy # "None"

\* The options object after _processOptions has written the resolved
\* values into it (jsi is the caller's object).
resolvedOpts(o, jsi) ==
    [o EXCEPT !.ack_policy = jsi.config.ack_policy,
              !.deliver_subject = jsi.config.deliver_subject # -1,
              !.idle_heartbeat = jsi.config.idle_heartbeat]

\* subscribe(subject, opts) to the ConsumerAdd request of _maybeCreateConsumer.
Subscribe ==
    /\ sub.pc = "new"
    /\ \E o \in SubscribeOpts :
        LET err == IF o.ordered THEN orderedError(o) ELSE ""
            jsi == processOptions(o, nc.inboxes + 1)
        IN  IF err # ""
            THEN /\ sub' = [sub EXCEPT !.pc = "failed", !.error = err]
                 /\ opts' = o
                 /\ UNCHANGED <<info, nc, srv>>
            ELSE IF jsi.config.deliver_subject = -1
            THEN /\ sub' = [sub EXCEPT !.pc = "failed",
                                       !.error = "push consumer requires deliver_subject"]
                 /\ opts' = resolvedOpts(o, jsi)
                 /\ info' = jsi
                 /\ nc' = [nc EXCEPT !.inboxes = @ + 1]
                 /\ UNCHANGED srv
            ELSE /\ sub' = [sub EXCEPT !.pc = "adding",
                                       !.subject = jsi.deliver,
                                       !.noIterator = o.cb,
                                       !.ordered = o.ordered,
                                       !.autoAck = installsAutoAck(o.mack, jsi.config.ack_policy)]
                 /\ opts' = resolvedOpts(o, jsi)
                 /\ info' = jsi
                 /\ nc' = [nc EXCEPT !.inboxes = IF o.ordered THEN @ + 1 ELSE @]
                 /\ srv' = [srv EXCEPT !.add = TRUE]
    /\ UNCHANGED <<pub, psub, monitor, app>>

\* The name the broker gives the consumer that delivers to a subject.
ConsumerName(subject) == subject + 1

\* ConsumerAdd answered: name, config and last adopted, then
\* sub._maybeSetupHbMonitoring().
AddOk ==
    /\ sub.pc = "adding"
    /\ srv.add
    /\ nc.connected
    /\ LET s1 == [S EXCEPT !.srv.add = FALSE,
                           !.srv.cons = [exists |-> TRUE, start |-> 1, cursor |-> 1, dseq |-> 0],
                           !.info.name = ConsumerName(sub.subject),
                           !.sub.pc = "open"]
       IN  Set(maybeSetupHbMonitoring(s1))
    /\ UNCHANGED <<pub, psub, opts>>

\* ConsumerAdd failed: sub.unsubscribe(), and subscribe() throws.
AddFail ==
    /\ sub.pc = "adding"
    /\ srv.add
    /\ Set(unsubscribe([S EXCEPT !.srv.add = FALSE, !.sub.pc = "failed",
                                 !.sub.error = "ConsumerAdd failed"]))
    /\ UNCHANGED <<pub, psub, opts>>

(***************************************************************************)
(* The broker, the connection, the timers and the application.             *)
(***************************************************************************)

\* What the model follows of a run.
Bounded(s) ==
    /\ s.info.flow_control.consumer_restarts <= MaxRestarts
    /\ s.info.flow_control.heartbeat_count <= MaxHb
    /\ Len(s.app.errs) <= MaxErrs

Listening == sub.pc = "open" /\ ~sub.closed /\ nc.connected

\* The consumer sends its next message: a stream sequence at or after its
\* cursor, the next delivery sequence. The frame reaches the subscription
\* or is lost on the way.
DataFrameOf(sseq, lost) ==
    /\ Listening
    /\ srv.cons.exists
    /\ sseq \in srv.cons.cursor..MaxStream
    /\ LET dseq == srv.cons.dseq + 1
           s1 == [S EXCEPT !.srv.cons.cursor = sseq + 1, !.srv.cons.dseq = dseq]
           s2 == IF lost THEN s1
                 ELSE subCallback([s1 EXCEPT !.nc.inbound = DataMsg(sseq, dseq)],
                                  NullErr, DataMsg(sseq, dseq))
       IN  Bounded(s2) /\ Set(s2)
    /\ UNCHANGED <<pub, psub, opts>>

DataFrame == \E sseq \in 1..MaxStream, lost \in BOOLEAN : DataFrameOf(sseq, lost)

\* The consumer sends an idle heartbeat with its last delivery sequence.
HeartbeatFrame ==
    /\ Listening
    /\ srv.cons.exists
    /\ info.config.idle_heartbeat > 0 \/ psub.last.idle_heartbeat > 0
    /\ LET s2 == subCallback([S EXCEPT !.nc.inbound = HeartbeatMsg(srv.cons.dseq)],
                             NullErr, HeartbeatMsg(srv.cons.dseq))
       IN  Bounded(s2) /\ Set(s2)
    /\ UNCHANGED <<pub, psub, opts>>

\* A slip: the error does not carry the sequence asked for.
RecreateErrorNoSeq(sseq) ==
    [code |-> "RequestError", message |-> "unable to recreate ordered consumer", seq |-> 0]

\* The error _resetOrderedConsumer injects when its request fails.
RecreateError(sseq) ==
    [code |-> "RequestError", message |-> "unable to recreate ordered consumer", seq |-> sseq]

\* The ConsumerCreate request of a recreate is answered: the consumer
\* delivers to its inbox from opt_start_seq on, and the subscription adopts
\* config and name of the answer.
CreateOk ==
    /\ nc.connected
    /\ \E req \in srv.reqs :
        Set([S EXCEPT !.srv.reqs = @ \ {req},
                      !.srv.cons = IF req.inbox = sub.subject
                                   THEN [exists |-> TRUE, start |-> req.config.opt_start_seq,
                                         cursor |-> req.config.opt_start_seq, dseq |-> 0]
                                   ELSE @,
                      !.info.config = req.config,
                      !.info.name = ConsumerName(req.inbox)])
    /\ UNCHANGED <<pub, psub, opts>>

\* The ConsumerCreate request fails (the consumer may exist all the same):
\* the error is injected through this.sub.callback.
CreateFail ==
    /\ \E req \in srv.reqs, created \in BOOLEAN :
        LET s1 == [S EXCEPT !.srv.reqs = @ \ {req},
                            !.srv.cons = IF created /\ req.inbox = sub.subject
                                         THEN [exists |-> TRUE,
                                               start |-> req.config.opt_start_seq,
                                               cursor |-> req.config.opt_start_seq,
                                               dseq |-> 0]
                                         ELSE @]
            s2 == subCallback(s1, RecreateError(req.config.opt_start_seq), DataMsg(0, 0))
        IN  Bounded(s2) /\ Set(s2)
    /\ UNCHANGED <<pub, psub, opts>>

\* The monitor's interval timer fires with no frame seen since the last one.
MonitorTick ==
    /\ monitor.live > 0
    /\ monitor.missed < MaxMissed
    /\ LET s1 == [S EXCEPT !.mon.missed = @ + 1]
           r == IF s1.mon.missed >= MaxOut
                THEN hbHandler(s1, s1.mon.missed)
                ELSE [s |-> s1, ret |-> FALSE]
           s2 == IF r.ret THEN [r.s EXCEPT !.mon = MonitorCancel(@)] ELSE r.s
       IN  Bounded(s2) /\ Set(s2)
    /\ UNCHANGED <<pub, psub, opts>>

\* The cancelAfter timers that can fire: the one the monitor holds, or one
\* it no longer holds a handle of.
FiredTimers(m) ==
    (IF m.autoCancelTimer THEN {"held"} ELSE {}) \cup
    (IF m.liveAuto > (IF m.autoCancelTimer THEN 1 ELSE 0) THEN {"orphan"} ELSE {})

\* A cancelAfter timer fires: cancel().
AutoCancel ==
    /\ \E t \in FiredTimers(monitor) :
        monitor' = IF t = "held"
                   THEN MonitorCancel(monitor)
                   ELSE MonitorCancel([monitor EXCEPT !.liveAuto = @ - 1])
    /\ UNCHANGED <<pub, psub, opts, sub, info, nc, srv, app>>

Disconnect ==
    /\ sub.pc = "open"
    /\ nc.connected
    /\ nc' = [nc EXCEPT !.connected = FALSE]
    /\ UNCHANGED <<pub, psub, opts, sub, info, monitor, srv, app>>

Reconnect ==
    /\ ~nc.connected
    /\ nc' = [nc EXCEPT !.connected = TRUE]
    /\ UNCHANGED <<pub, psub, opts, sub, info, monitor, srv, app>>

\* The application reads the iterator: the stop error if there is one, the
\* next queued value that passes the protocol filter, or the end.
IterNext ==
    /\ sub.pc = "open"
    /\ ~sub.noIterator
    /\ ~app.ended
    /\ IF sub.err # NullErr
       THEN Set([S EXCEPT !.app.errs = Append(@, sub.err), !.app.ended = TRUE])
       ELSE IF sub.yields # <<>>
       THEN LET jm == Head(sub.yields)
                s1 == [S EXCEPT !.sub.yields = Tail(@)]
                f == protocolFilterFn(s1, jm, FALSE)
            IN  IF f.ok
                THEN Set(dispatchedFn(yield(f.s, jm), jm))
                ELSE Set(f.s)
       ELSE /\ sub.done
            /\ Set([S EXCEPT !.app.ended = TRUE])
    /\ UNCHANGED <<pub, psub, opts>>

\* The application calls unsubscribe().
Unsubscribe ==
    /\ sub.pc = "open"
    /\ ~sub.closed
    /\ Set(unsubscribe(S))
    /\ UNCHANGED <<pub, psub, opts>>

NoPull == [expires |-> 0, idle_heartbeat |-> 0]

\* No pull subscription.
PullIdle ==
    [pc |-> "off", featureOk |-> FALSE, calls |-> 0, published |-> 0, last |-> NoPull,
     threw |-> ""]

SubInit ==
    /\ opts = NoOpts
    /\ sub = NoSub
    /\ info = NoInfo
    /\ monitor = NoMonitor
    /\ nc = [connected |-> TRUE, inboxes |-> 0, acks |-> 0, inbound |-> NoFrame,
             maxWaitingToFail |-> FALSE, replies |-> <<>>,
             published |-> <<>>]
    /\ srv = [cons |-> NoConsumer, reqs |-> {}, add |-> FALSE, fc |-> 0]
    /\ app = [yielded |-> <<>>, restarts |-> 0, errs |-> <<>>, ended |-> FALSE]

SubNext ==
    \/ Subscribe
    \/ AddOk
    \/ AddFail
    \/ DataFrame
    \/ HeartbeatFrame
    \/ CreateOk
    \/ CreateFail
    \/ MonitorTick
    \/ Disconnect
    \/ Reconnect
    \/ IterNext
    \/ Unsubscribe

PubOff == pub = PubIdle

PullOff == psub = PullIdle

SpecSubInit == SubInit /\ PubOff /\ PullOff

SpecSub == SpecSubInit /\ [][SubNext]_vars

(***************************************************************************)
(* JetStreamPullSubscriptionImpl.pull                                      *)
(***************************************************************************)
MaxPulls == 2       \* calls of pull() followed

\* The values of expires and idle_heartbeat (milliseconds) a caller gives;
\* 0 stands for "not given".
PullMillis == {0, 1, 2}

PullOptions == [expires : PullMillis, idle_heartbeat : PullMillis, max_bytes : {0, 1}]

\* What pull(opts) throws, "" when it goes on.
pullError(o, featureOk) ==
    IF o.max_bytes > 0 /\ ~featureOk
    THEN "max_bytes is only supported on servers 2.8.3 or better"
    ELSE IF o.idle_heartbeat > 0 /\ o.expires = 0
    THEN "idle_heartbeat requires expires"
    ELSE IF o.idle_heartbeat > o.expires
    THEN "expires must be greater than idle_heartbeat"
    ELSE ""

\* The monitor after pull(): cancelled if there is one, then set up or
\* changed when both expires and idle_heartbeat are given.
rearmMonitor(m, expires, hb) ==
    LET c == IF m.set THEN MonitorCancel(m) ELSE m
    IN  IF expires > 0 /\ hb > 0
        THEN (IF ~c.set THEN NewIdleHeartbeat(c, hb, expires)
              ELSE MonitorChange(c, hb, expires))
        ELSE c

\* pull(o): it throws, or it re-arms the monitor and publishes the request.
PullOf(o) ==
    /\ psub.pc = "on"
    /\ psub.calls < MaxPulls
    /\ IF pullError(o, psub.featureOk) # ""
       THEN /\ psub' = [psub EXCEPT !.calls = @ + 1, !.threw = pullError(o, psub.featureOk)]
            /\ UNCHANGED <<monitor, srv>>
       ELSE /\ psub' = [psub EXCEPT !.calls = @ + 1, !.threw = "",
                                    !.last = [expires |-> o.expires,
                                              idle_heartbeat |-> o.idle_heartbeat],
                                    !.published = @ + 1]
            /\ monitor' = rearmMonitor(monitor, o.expires, o.idle_heartbeat)
            /\ srv' = [srv EXCEPT !.cons.exists = TRUE]
    /\ UNCHANGED <<pub, opts, sub, info, nc, app>>

Pull == \E o \in PullOptions : PullOf(o)

\* A pull subscription as pullSubscribe() returns it: bound to a durable
\* pull consumer, ack policy explicit, no monitor, nothing pulled yet.
PullInitWith(w) ==
    /\ \E f \in BOOLEAN : psub = [PullIdle EXCEPT !.pc = "on", !.featureOk = f]
    /\ \E cb \in BOOLEAN :
        /\ opts = [NoOpts EXCEPT !.ack_policy = "Explicit", !.cb = cb]
        /\ sub = [NoSub EXCEPT !.pc = "open", !.subject = 1, !.noIterator = cb,
                               !.autoAck = installsAutoAck(FALSE, "Explicit")]
    /\ info = [NoInfo EXCEPT !.deliver = 1, !.name = ConsumerName(1),
                             !.config = [NoConfig EXCEPT !.deliver_subject = -1,
                                                         !.ack_policy = "Explicit"]]
    /\ monitor = NoMonitor
    /\ nc = [connected |-> TRUE, inboxes |-> 1, acks |-> 0, inbound |-> NoFrame,
             maxWaitingToFail |-> w, replies |-> <<>>,
             published |-> <<>>]
    /\ srv = [cons |-> [exists |-> FALSE, start |-> 1, cursor |-> 1, dseq |-> 0], reqs |-> {}, add |-> FALSE, fc |-> 0]
    /\ app = [yielded |-> <<>>, restarts |-> 0, errs |-> <<>>, ended |-> FALSE]

PullInit == PullInitWith(FALSE)

PullNext ==
    \/ Pull
    \/ DataFrame
    \/ HeartbeatFrame
    \/ MonitorTick
    \/ AutoCancel
    \/ IterNext
    \/ Unsubscribe

SpecPullInit == PullInit /\ PubOff

SpecPull == SpecPullInit /\ [][PullNext]_vars

(***************************************************************************)
(* fetch(stream, durable, opts): one pull request whose replies are read   *)
(* from a queued iterator. psub holds the locals of the call (args, wants, *)
(* received, receivedBytes, timer), sub the inbox subscription and the     *)
(* iterator qi, monitor the idle-heartbeat monitor. stopped, hbs, hbWorks  *)
(* and sent are history: what stopped the iterator, the heartbeats the     *)
(* server sent, the work() calls made for them, the messages it sent.      *)
(***************************************************************************)
MaxBatch == 2

FetchOptions ==
    [batch : 0..MaxBatch, max_bytes : {0, 1}, no_wait : BOOLEAN, expires : {0, 1},
     idle_heartbeat : {0, 1}]

NoFetchOpts ==
    [batch |-> 0, max_bytes |-> 0, no_wait |-> FALSE, expires |-> 0, idle_heartbeat |-> 0]

\* The state a fetch works on.
F ==
    [f |-> psub, q |-> sub, mon |-> monitor, app |-> app]

SetF(s) ==
    /\ psub' = s.f
    /\ sub' = s.q
    /\ monitor' = s.mon
    /\ app' = s.app

\* toJsMsg(msg): info.pending and data.length are read by the dispatched hook.
toJsMsg(m, pending, size) ==
    [kind |-> m.kind, code |-> m.code, description |-> m.description, sseq |-> m.sseq,
     dseq |-> m.dseq, last |-> m.last, pending |-> pending, size |-> size]

\* The function the monitor's handler pushes.
FnItem(v) ==
    [kind |-> "fn", code |-> 0, description |-> "", sseq |-> 0, dseq |-> 0, last |-> v,
     pending |-> 0, size |-> 0]

\* new NatsError(`${Js409Errors.IdleHeartbeatMissed}: ${v}`, ErrorCode.JetStreamIdleHeartBeat)
FetchHeartbeatError(v) ==
    [code |-> "JetStreamIdleHeartBeat", message |-> "IdleHeartbeatMissed", seq |-> v]

\* What fetch throws before it creates anything, or "".
fetchErrorLenient(o, featureOk) ==
    IF o.max_bytes > 0 /\ ~featureOk THEN "max_bytes is only supported on newer servers"
    ELSE ""

fetchError(o, featureOk) ==
    IF o.max_bytes > 0 /\ ~featureOk THEN "max_bytes is only supported on newer servers"
    ELSE IF o.expires = 0 /\ ~o.no_wait THEN "expires or no_wait is required"
    ELSE ""

\* qi.stop(err), with what made the call.
qiStop(s, err, why) ==
    IF s.q.done THEN s
    ELSE [s EXCEPT !.q.done = TRUE, !.q.err = err, !.f.stopped = @ \cup why]

\* qi.push(v)
qiPush(s, v) ==
    IF s.q.done THEN s ELSE [s EXCEPT !.q.yields = Append(@, v)]

\* monitor?.work() for a heartbeat frame.
fetchWork(s) ==
    IF s.mon.set THEN [s EXCEPT !.mon = MonitorWork(@), !.f.hbWorks = @ + 1] ELSE s

\* qi.protocolFilterFn
fetchProtocolFilterFn(s, jm) ==
    IF isHeartbeatMsg(jm) THEN [s |-> fetchWork(s), ok |-> FALSE]
    ELSE [s |-> s, ok |-> TRUE]

\* The conditions of qi.dispatchedFn that hold for m, the last message read.
StopConditions(s, m) ==
    (IF Len(s.q.yields) = 0 /\ m.pending = 0 THEN {"pending"} ELSE {}) \cup
    (IF s.f.wants = s.f.received THEN {"batch"} ELSE {}) \cup
    (IF s.f.args.max_bytes > 0 /\ s.f.receivedBytes >= s.f.args.max_bytes
     THEN {"bytes"} ELSE {})

\* qi.dispatchedFn(m), called once m was yielded; s.q.yields is what is
\* still queued behind m.
fetchDispatchedFnNoTimerCheck(s, m) ==
    LET s1 == [s EXCEPT !.f.receivedBytes = IF s.f.args.max_bytes > 0 THEN @ + m.size ELSE @,
                        !.f.received = @ + 1]
    IN  IF StopConditions(s1, m) # {} THEN qiStop(s1, NullErr, StopConditions(s1, m))
        ELSE s1

fetchDispatchedFn(s, m) ==
    LET s1 == [s EXCEPT !.f.receivedBytes = IF s.f.args.max_bytes > 0 THEN @ + m.size ELSE @,
                        !.f.received = @ + 1]
    IN  IF s1.f.timer /\ m.pending = 0 THEN s1
        ELSE IF StopConditions(s1, m) # {} THEN qiStop(s1, NullErr, StopConditions(s1, m))
        ELSE s1

\* The callback of the inbox subscription.
fetchCallbackKeepErrors(s, msg) ==
    LET err == checkJsError(msg)
    IN  IF err # NullErr
        THEN qiStop([s EXCEPT !.f.timer = FALSE], err, {"status"})
        ELSE LET s1 == IF isHeartbeatMsg(msg) THEN fetchWork(s)
                       ELSE [s EXCEPT !.mon = IF @.set THEN MonitorWork(@) ELSE @]
             IN  qiPush(s1, msg)

\* A slip: a status frame that is not terminal is dropped and the fetch
\* goes on.
fetchCallbackGoOn(s, msg) ==
    LET err == checkJsError(msg)
    IN  IF err # NullErr
        THEN IF hideNonTerminalJsErrors(err) = NullErr
             THEN s
             ELSE qiStop([s EXCEPT !.f.timer = FALSE], err, {"terminal"})
        ELSE LET s1 == IF isHeartbeatMsg(msg) THEN fetchWork(s)
                       ELSE [s EXCEPT !.mon = IF @.set THEN MonitorWork(@) ELSE @]
             IN  qiPush(s1, msg)

fetchCallback(s, msg) ==
    LET err == checkJsError(msg)
    IN  IF err # NullErr
        THEN LET s1 == [s EXCEPT !.f.timer = FALSE]
             IN  IF hideNonTerminalJsErrors(err) = NullErr
                 THEN qiStop(s1, NullErr, {"status"})
                 ELSE qiStop(s1, err, {"terminal"})
        ELSE LET s1 == IF isHeartbeatMsg(msg) THEN fetchWork(s)
                       ELSE [s EXCEPT !.mon = IF @.set THEN MonitorWork(@) ELSE @]
             IN  qiPush(s1, msg)

\* A slip: the heartbeat monitor is left running when the subscription closes.
fetchClosedKeepMonitor(s, why) ==
    qiStop([s EXCEPT !.q.closed = TRUE, !.f.timer = FALSE], NullErr, why)

\* The subscription closed: what follows `await sub.closed`.
fetchClosed(s, why) ==
    qiStop([s EXCEPT !.q.closed = TRUE, !.f.timer = FALSE, !.mon = MonitorCancel(@)],
           NullErr, why)

\* The transport hands a frame to the inbox subscription, and unsubscribes
\* it once max frames were handed over.
fetchDeliver(s, msg) ==
    LET s1 == fetchCallback([s EXCEPT !.q.received = @ + 1], msg)
    IN  IF s1.q.max > 0 /\ s1.q.received >= s1.q.max THEN fetchClosed(s1, {"max"})
        ELSE s1

NoFetch ==
    [pc |-> "call", featureOk |-> FALSE, args |-> NoFetchOpts, wants |-> 0, received |-> 0,
     receivedBytes |-> 0, timer |-> FALSE, published |-> 0, reply |-> 0, threw |-> "",
     stopped |-> {}, hbs |-> 0, hbWorks |-> 0, sent |-> 0]

NoInbox ==
    [pc |-> "none", subject |-> 0, max |-> 0, received |-> 0, closed |-> FALSE,
     done |-> FALSE, err |-> NullErr, yields |-> <<>>]

\* The application calls fetch(stream, durable, o).
FetchOf(o) ==
    /\ psub.pc = "call"
    /\ IF fetchError(o, psub.featureOk) # ""
       THEN /\ psub' = [psub EXCEPT !.pc = "threw", !.args = o,
                                    !.threw = fetchError(o, psub.featureOk)]
            /\ UNCHANGED <<sub, monitor, nc, srv>>
       ELSE /\ psub' = [psub EXCEPT !.pc = "fetching", !.args = o,
                                    !.wants = IF o.batch = 0 THEN 1 ELSE o.batch,
                                    !.timer = o.expires > 0,
                                    !.published = @ + 1, !.reply = nc.inboxes + 1]
            /\ sub' = [NoInbox EXCEPT !.pc = "fetch", !.subject = nc.inboxes + 1,
                                      !.max = o.batch]
            /\ monitor' = IF o.idle_heartbeat > 0
                          THEN NewIdleHeartbeat(monitor, o.idle_heartbeat, 0)
                          ELSE monitor
            /\ nc' = [nc EXCEPT !.inboxes = @ + 1]
            /\ srv' = [srv EXCEPT !.cons.exists = TRUE]
    /\ UNCHANGED <<pub, opts, info, app>>

Fetch == \E o \in FetchOptions : FetchOf(o)

\* The server is answering the request and the inbox still listens.
Answering ==
    /\ psub.pc = "fetching"
    /\ srv.cons.exists
    /\ ~sub.closed

\* The server sends the next message of the consumer; info.pending is what
\* the consumer has left after it.
FetchData ==
    /\ Answering
    /\ srv.cons.cursor <= MaxStream
    /\ psub.sent < psub.wants
    /\ LET sseq == srv.cons.cursor
           m == toJsMsg(DataMsg(sseq, srv.cons.dseq + 1), MaxStream - sseq, 1)
           s1 == [F EXCEPT !.f.sent = @ + 1]
       IN  /\ SetF(fetchDeliver(s1, m))
           /\ nc' = [nc EXCEPT !.inbound = m]
           /\ srv' = [srv EXCEPT !.cons.cursor = sseq + 1, !.cons.dseq = @ + 1,
                                 !.cons.exists = psub.sent + 1 < psub.wants]
    /\ UNCHANGED <<pub, opts, info>>

\* The server sends an idle heartbeat.
FetchHeartbeat ==
    /\ Answering
    /\ psub.args.idle_heartbeat > 0
    /\ psub.hbs < MaxHb
    /\ LET m == toJsMsg(HeartbeatMsg(srv.cons.dseq), 0, 0)
           s1 == [F EXCEPT !.f.hbs = @ + 1]
       IN  /\ SetF(fetchDeliver(s1, m))
           /\ nc' = [nc EXCEPT !.inbound = m]
    /\ UNCHANGED <<pub, opts, info, srv>>

\* The server ends the request with a status frame.
FetchStatusOf(code, description) ==
    /\ Answering
    /\ LET m == toJsMsg(StatusMsg(code, description), 0, 0)
       IN  /\ SetF(fetchDeliver(F, m))
           /\ nc' = [nc EXCEPT !.inbound = m]
    /\ srv' = [srv EXCEPT !.cons.exists = FALSE]
    /\ UNCHANGED <<pub, opts, info>>

FetchStatus == \E k \in StatusFrames : FetchStatusOf(k[1], k[2])

\* The expiration timer fires: the subscription is drained.
FetchExpire ==
    /\ psub.pc = "fetching"
    /\ psub.timer
    /\ SetF(fetchClosed(F, {"expires"}))
    /\ UNCHANGED <<pub, opts, info, nc, srv>>

\* The monitor's interval timer fires with no frame seen since the last
\* one; at maxOut the handler pushes its function and stops the monitor.
FetchMonitorTick ==
    /\ psub.pc = "fetching"
    /\ monitor.live > 0
    /\ monitor.missed < MaxMissed
    /\ LET s1 == [F EXCEPT !.mon.missed = @ + 1]
       IN  IF s1.mon.missed >= MaxOut
           THEN SetF([qiPush(s1, FnItem(s1.mon.missed)) EXCEPT !.mon = MonitorCancel(@)])
           ELSE SetF(s1)
    /\ UNCHANGED <<pub, opts, info, nc, srv>>

\* The application reads the iterator.
FetchIterNext ==
    /\ psub.pc = "fetching"
    /\ ~app.ended
    /\ IF sub.err # NullErr
       THEN SetF([F EXCEPT !.app.errs = Append(@, sub.err), !.app.ended = TRUE])
       ELSE IF sub.yields # <<>>
       THEN LET jm == Head(sub.yields)
                s1 == [F EXCEPT !.q.yields = Tail(@)]
            IN  IF jm.kind = "fn"
                THEN SetF([s1 EXCEPT !.q.err = FetchHeartbeatError(jm.last),
                                     !.f.stopped = @ \cup {"missed"},
                                     !.app.errs = Append(@, FetchHeartbeatError(jm.last)),
                                     !.app.ended = TRUE])
                ELSE LET r == fetchProtocolFilterFn(s1, jm)
                     IN  IF r.ok
                         THEN SetF(fetchDispatchedFn(
                                      [r.s EXCEPT !.app.yielded = Append(@, jm)], jm))
                         ELSE SetF(r.s)
       ELSE /\ sub.done
            /\ SetF([F EXCEPT !.app.ended = TRUE])
    /\ UNCHANGED <<pub, opts, info, nc, srv>>

FetchInit ==
    /\ \E f \in BOOLEAN : psub = [NoFetch EXCEPT !.featureOk = f]
    /\ opts = NoOpts
    /\ sub = NoInbox
    /\ info = NoInfo
    /\ monitor = NoMonitor
    /\ \E w \in BOOLEAN :
        nc = [connected |-> TRUE, inboxes |-> 0, acks |-> 0, inbound |-> NoFrame,
              maxWaitingToFail |-> w, replies |-> <<>>,
             published |-> <<>>]
    /\ \E c \in 1..(MaxStream + 1) :
        srv = [cons |-> [exists |-> FALSE, start |-> c, cursor |-> c, dseq |-> 0],
               reqs |-> {}, add |-> FALSE, fc |-> 0]
    /\ app = [yielded |-> <<>>, restarts |-> 0, errs |-> <<>>, ended |-> FALSE]

FetchNext ==
    \/ Fetch
    \/ FetchData
    \/ FetchHeartbeat
    \/ FetchStatus
    \/ FetchExpire
    \/ FetchMonitorTick
    \/ FetchIterNext

SpecFetchInit == FetchInit /\ PubOff

SpecFetch == SpecFetchInit /\ [][FetchNext]_vars

\* The expiration timer is a timeout of the event loop: once set it fires
\* unless it is cancelled.
SpecFetchLive == SpecFetchInit /\ [][FetchNext]_vars /\ WF_vars(FetchExpire)

\* The timers of the event loop fire and the application keeps reading:
\* the expiration, the monitor's interval and the reads of the iterator
\* happen as long as they can.
SpecFetchFair ==
    /\ SpecFetchInit
    /\ [][FetchNext]_vars
    /\ WF_vars(FetchExpire)
    /\ WF_vars(FetchMonitorTick)
    /\ WF_vars(FetchIterNext)

(***************************************************************************)
(* A fetch whose server goes on after a 409 that is not terminal: the      *)
(* inbox subscription is still open (the callback cancelled the timer and  *)
(* stopped the iterator, nothing closed the subscription), so a message    *)
(* the consumer sends afterwards reaches the callback.                     *)
(***************************************************************************)
FetchLateData ==
    /\ psub.pc = "fetching"
    /\ ~sub.closed
    /\ ~srv.cons.exists
    /\ nc.inbound.code = 409
    /\ hideNonTerminalJsErrors(checkJsError(nc.inbound)) = NullErr
    /\ srv.cons.cursor <= MaxStream
    /\ LET sseq == srv.cons.cursor
           m == toJsMsg(DataMsg(sseq, srv.cons.dseq + 1), MaxStream - sseq, 1)
           s1 == [F EXCEPT !.f.sent = @ + 1]
       IN  /\ SetF(fetchDeliver(s1, m))
           /\ nc' = [nc EXCEPT !.inbound = m]
           /\ srv' = [srv EXCEPT !.cons.cursor = sseq + 1, !.cons.dseq = @ + 1]
    /\ UNCHANGED <<pub, opts, info>>

FetchLateNext == FetchNext \/ FetchLateData

SpecFetchLate == SpecFetchInit /\ [][FetchLateNext]_vars

(***************************************************************************)
(* Replies to a pull request in the three ways of reading them: a fetch,   *)
(* a pull subscription that is iterated, a pull subscription with a        *)
(* callback. The pulls of the subscription carry no options here; its     *)
(* monitor is the subject of SpecPull.                                     *)
(***************************************************************************)

\* The server ends a pull request of the subscription with a status frame.
PullStatusOf(code, description) ==
    /\ Listening
    /\ psub.pc = "on"
    /\ srv.cons.exists
    /\ LET m == StatusMsg(code, description)
           s1 == [S EXCEPT !.nc.inbound = m, !.srv.cons.exists = FALSE]
           s2 == subCallback(s1, NullErr, m)
       IN  Bounded(s2) /\ Set(s2)
    /\ UNCHANGED <<pub, psub, opts>>

PullStatus == \E k \in StatusFrames : PullStatusOf(k[1], k[2])

\* pull() with no expires, no idle_heartbeat and no max_bytes.
PlainPull == PullOf([expires |-> 0, idle_heartbeat |-> 0, max_bytes |-> 0])

ReplyInit == FetchInit \/ (\E w \in BOOLEAN : PullInitWith(w))

ReplyNext ==
    \/ FetchNext
    \/ PlainPull
    \/ DataFrame
    \/ PullStatus
    \/ IterNext
    \/ Unsubscribe

SpecReplyInit == ReplyInit /\ PubOff

SpecReply == SpecReplyInit /\ [][ReplyNext]_vars

(***************************************************************************)
(* Flow control on a push subscription: the consumer sends flow-control    *)
(* requests between its messages. srv.fc counts them, and the k-th one     *)
(* carries reply subject k; nc.replies are the replies published.          *)
(***************************************************************************)
MaxFc == 2

FlowControlFrame ==
    /\ Listening
    /\ srv.cons.exists
    /\ srv.fc < MaxFc
    /\ LET m == FlowControlMsg(srv.fc + 1)
           s1 == [S EXCEPT !.nc.inbound = m, !.srv.fc = @ + 1]
           s2 == subCallback(s1, NullErr, m)
       IN  Bounded(s2) /\ Set(s2)
    /\ UNCHANGED <<pub, psub, opts>>

FlowNext ==
    \/ Subscribe
    \/ AddOk
    \/ AddFail
    \/ DataFrame
    \/ HeartbeatFrame
    \/ FlowControlFrame
    \/ CreateOk
    \/ CreateFail
    \/ IterNext
    \/ Unsubscribe

SpecFlow == SpecSubInit /\ [][FlowNext]_vars

(***************************************************************************)
(* Heartbeats of a stalled consumer: a consumer with flow control that     *)
(* waits for the client names a subject in its heartbeat; nc.published are *)
(* the subjects the subscription published an empty message to.            *)
(***************************************************************************)

\* The subject a stalled consumer names.
StalledSubject == 77

StalledHeartbeatFrame ==
    /\ Listening
    /\ srv.cons.exists
    /\ info.config.idle_heartbeat > 0
    /\ LET m == StalledHeartbeatMsg(srv.cons.dseq, StalledSubject)
           s2 == subCallback([S EXCEPT !.nc.inbound = m], NullErr, m)
       IN  Bounded(s2) /\ Set(s2)
    /\ UNCHANGED <<pub, psub, opts>>

StallNext ==
    \/ Subscribe
    \/ AddOk
    \/ DataFrame
    \/ HeartbeatFrame
    \/ StalledHeartbeatFrame
    \/ CreateOk
    \/ IterNext

SpecStall == SpecSubInit /\ [][StallNext]_vars

(***************************************************************************)
(* Cancellation: unsubscribe, drain and destroy.  The drain is that of     *)
(* SubscriptionImpl (section 5 of the design document): it lets what is    *)
(* under way finish and then closes the subscription; on a subscription    *)
(* that is closed or draining it does nothing.                             *)
(***************************************************************************)
MaxCancels == 3     \* calls of unsubscribe, drain and destroy followed

DurableNames == {"", "d"}

\* No cancellation called yet: the call under way, the durable_name of the
\* consumer's config, the drains started, the ConsumerDelete requests sent
\* and the errors their answers raised.
NoCancel ==
    [pc |-> "idle", op |-> "", durable_name |-> "", cancels |-> 0, drains |-> 0,
     deletes |-> <<>>, threw |-> 0]

\* A slip: destroy() never drains.
destroyNoDrain(closed) == "deleting"

\* destroy(): what it does first, `if (!this.isClosed()) await this.drain()`.
destroy(closed) == IF ~closed THEN "draining" ELSE "deleting"

\* `jinfo.config.durable_name || jinfo.name` and the subject made of it.
\* The subject names the consumer by its durable name or, when there is
\* none, by the name the server gave it.
deleteSubject(durable_name, name) ==
    IF durable_name # ""
    THEN [api |-> "CONSUMER.DELETE", durable |-> durable_name, name |-> 0]
    ELSE [api |-> "CONSUMER.DELETE", durable |-> "", name |-> name]

\* jinfo.api._request(subj)
destroyRequest(c, name) ==
    [c EXCEPT !.pc = "deleting", !.op = "destroy",
              !.deletes = Append(@, deleteSubject(c.durable_name, name))]

CanCancel == sub.pc = "open" /\ psub.cancels < MaxCancels

\* The application calls unsubscribe(), at any time.
CancelUnsubscribe ==
    /\ CanCancel
    /\ Set(unsubscribe(S))
    /\ psub' = [psub EXCEPT !.cancels = @ + 1]
    /\ UNCHANGED <<pub, opts>>

\* The application calls drain().
DrainCall ==
    /\ CanCancel
    /\ psub.pc = "idle"
    /\ psub' = IF sub.closed THEN [psub EXCEPT !.cancels = @ + 1]
               ELSE [psub EXCEPT !.cancels = @ + 1, !.pc = "draining", !.op = "drain",
                                 !.drains = @ + 1]
    /\ UNCHANGED <<pub, opts, sub, info, monitor, nc, srv, app>>

\* The application calls destroy().
DestroyCall ==
    /\ CanCancel
    /\ psub.pc = "idle"
    /\ LET c == [psub EXCEPT !.cancels = @ + 1]
       IN  psub' = IF destroy(sub.closed) = "draining"
                   THEN [c EXCEPT !.pc = "draining", !.op = "destroy", !.drains = @ + 1]
                   ELSE destroyRequest(c, info.name)
    /\ UNCHANGED <<pub, opts, sub, info, monitor, nc, srv, app>>

\* The drain completes: the subscription is closed; destroy() goes on to
\* its request.
DrainDone ==
    /\ psub.pc = "draining"
    /\ Set(unsubscribe(S))
    /\ psub' = IF psub.op = "destroy" THEN destroyRequest(psub, info.name)
               ELSE [psub EXCEPT !.pc = "idle"]
    /\ UNCHANGED <<pub, opts>>

\* The server answers a ConsumerDelete: it deletes the consumer, or answers
\* that there is none, which _request throws.
DeleteAnswer ==
    /\ psub.pc = "deleting"
    /\ nc.connected
    /\ srv' = [srv EXCEPT !.cons.exists = FALSE]
    /\ psub' = [psub EXCEPT !.pc = "idle",
                            !.threw = IF srv.cons.exists THEN @ ELSE @ + 1]
    /\ UNCHANGED <<pub, opts, sub, info, monitor, nc, app>>

CancelNext ==
    \/ Subscribe
    \/ AddOk
    \/ DataFrame
    \/ MonitorTick
    \/ IterNext
    \/ CancelUnsubscribe
    \/ DrainCall
    \/ DestroyCall
    \/ DrainDone
    \/ DeleteAnswer

SpecCancelInit ==
    /\ SubInit
    /\ PubOff
    /\ \E d \in DurableNames : psub = [NoCancel EXCEPT !.durable_name = d]

SpecCancel == SpecCancelInit /\ [][CancelNext]_vars

(***************************************************************************)
(* subscribe() and pullSubscribe() with a durable: _processOptions looks   *)
(* the durable up and attaches to it, the call checks the resolved         *)
(* options, builds the subscription, and _maybeCreateConsumer binds or     *)
(* adds. srv.durable is the config the server has for the durable, or      *)
(* NoDurable; srv.infos and srv.adds count the ConsumerInfo and            *)
(* ConsumerAdd requests.                                                   *)
(***************************************************************************)
NoDurable == [exists |-> FALSE, deliver_subject |-> -1, ack_policy |-> "NotSet"]

\* The durables a server can have: pull or push, with an ack policy.
Durables ==
    {NoDurable} \cup
    [exists : {TRUE}, deliver_subject : {-1, UserSubject},
     ack_policy : {"None", "All", "Explicit"}]

\* The options of a call: isBind is set by bind(stream, durable), which
\* names a durable.
OpenOpts ==
    {o \in [api : {"subscribe", "pullSubscribe"}, ordered : BOOLEAN,
            ack_policy : AckPolicies, deliver_subject : BOOLEAN, durable : BOOLEAN,
            isBind : BOOLEAN] : o.isBind => o.durable}

NoOpenOpts ==
    [api |-> "", ordered |-> FALSE, ack_policy |-> "NotSet", deliver_subject |-> FALSE,
     durable |-> FALSE, isBind |-> FALSE]

\* The error _processOptions throws for ordered options, "" when it accepts.
openOrderedError(o) ==
    IF o.ack_policy \notin {"NotSet", "None"}
    THEN "ordered consumer: ack_policy can only be set to 'none'"
    ELSE IF o.durable
    THEN "ordered consumer: durable_name cannot be set"
    ELSE IF o.deliver_subject
    THEN "ordered consumer: deliver_subject cannot be set"
    ELSE ""

\* _processOptions(subject, opts) with the look-up of the durable: the
\* subscription info it returns; first is the next fresh inbox.
openProcessOptions(o, durable, first) ==
    LET jsi == processOptions([NoOpts EXCEPT !.ordered = o.ordered,
                                             !.ack_policy = o.ack_policy,
                                             !.deliver_subject = o.deliver_subject], first)
        attached == o.durable /\ durable.exists
        config == IF attached
                  THEN [jsi.config EXCEPT !.deliver_subject = durable.deliver_subject,
                                          !.ack_policy = durable.ack_policy]
                  ELSE jsi.config
        used == IF o.ordered THEN 1 ELSE 0
    IN  [ordered |-> jsi.ordered,
         ordered_consumer_sequence |-> jsi.ordered_consumer_sequence,
         flow_control |-> jsi.flow_control,
         deliver |-> IF config.deliver_subject # -1 THEN config.deliver_subject
                     ELSE first + used,
         config |-> config, name |-> jsi.name,
         isBind |-> o.isBind, attached |-> attached, durable_name |-> o.durable,
         inboxes |-> IF config.deliver_subject # -1 THEN used ELSE used + 1]

\* A slip: the ack policy is not looked at.
pullSubscribeErrorAnyAck(cso) ==
    IF cso.ordered THEN "pull subscribers cannot be be ordered"
    ELSE IF cso.config.deliver_subject # -1
    THEN "pull consumers cannot have deliver_subject set"
    ELSE ""

\* What pullSubscribe throws for the resolved options, or "".
pullSubscribeError(cso) ==
    IF cso.ordered THEN "pull subscribers cannot be be ordered"
    ELSE IF cso.config.deliver_subject # -1
    THEN "pull consumers cannot have deliver_subject set"
    ELSE IF cso.config.ack_policy \in {"None", "All"}
    THEN "ack policy for pull consumers must be explicit"
    ELSE ""

\* What subscribe throws for the resolved options, or "".
subscribeError(cso) ==
    IF ~cso.isBind /\ cso.config.deliver_subject = -1
    THEN "push consumer requires deliver_subject"
    ELSE ""

\* A slip: a bind to a missing durable goes on to add the consumer.
bindErrorNever(jsi) == ""

\* What _maybeCreateConsumer throws before it adds, or "".
bindError(jsi) ==
    IF ~jsi.attached /\ jsi.isBind THEN "unable to bind - durable consumer doesn't exist"
    ELSE ""

\* No subscription built yet.
NoOpenSub ==
    [pc |-> "new", error |-> "", created |-> FALSE, subject |-> 0, closed |-> FALSE,
     noIterator |-> FALSE, ordered |-> FALSE, autoAck |-> FALSE, done |-> FALSE,
     err |-> NullErr, yields |-> <<>>]

\* A slip: the catch rethrows without the unsubscribe.
maybeCreateFailedKeepSub(built, err) ==
    [built EXCEPT !.pc = "failed", !.error = err]

\* The catch around _maybeCreateConsumer: sub.unsubscribe(); throw err.
maybeCreateFailed(built, err) ==
    [built EXCEPT !.pc = "failed", !.error = err, !.closed = TRUE, !.done = TRUE]

\* subscribe(subject, o) or pullSubscribe(subject, o), to its return, its
\* throw or its ConsumerAdd request.
OpenOf(o) ==
    /\ sub.pc = "new"
    /\ opts' = o
    /\ IF o.ordered /\ openOrderedError(o) # ""
       THEN /\ sub' = [sub EXCEPT !.pc = "failed", !.error = openOrderedError(o)]
            /\ UNCHANGED <<info, monitor, nc, srv>>
       ELSE LET cso == openProcessOptions(o, srv.durable, nc.inboxes + 1)
                err == IF o.api = "pullSubscribe" THEN pullSubscribeError(cso)
                       ELSE subscribeError(cso)
                asked == [srv EXCEPT !.infos = IF o.durable THEN @ + 1 ELSE @]
                built == [sub EXCEPT !.created = TRUE, !.subject = cso.deliver,
                                     !.ordered = cso.ordered,
                                     !.autoAck = installsAutoAck(FALSE, cso.config.ack_policy)]
            IN  /\ info' = cso
                /\ nc' = [nc EXCEPT !.inboxes = @ + cso.inboxes]
                /\ IF err # ""
                   THEN /\ sub' = [sub EXCEPT !.pc = "failed", !.error = err]
                        /\ srv' = asked
                        /\ UNCHANGED monitor
                   ELSE IF cso.attached
                   THEN /\ sub' = [built EXCEPT !.pc = "open"]
                        /\ srv' = asked
                        /\ monitor' = IF o.api = "subscribe" /\ cso.config.idle_heartbeat > 0
                                      THEN NewIdleHeartbeat(monitor, cso.config.idle_heartbeat, 0)
                                      ELSE monitor
                   ELSE IF bindError(cso) # ""
                   THEN /\ sub' = maybeCreateFailed(built, bindError(cso))
                        /\ srv' = asked
                        /\ UNCHANGED monitor
                   ELSE /\ sub' = [built EXCEPT !.pc = "adding"]
                        /\ srv' = [asked EXCEPT !.add = TRUE, !.adds = @ + 1]
                        /\ UNCHANGED monitor
    /\ UNCHANGED <<pub, psub, app>>

Open == \E o \in OpenOpts : OpenOf(o)

\* ConsumerAdd answered: name and config adopted; subscribe() then sets up
\* the heartbeat monitor.
OpenAddOk ==
    /\ sub.pc = "adding"
    /\ srv.add
    /\ sub' = [sub EXCEPT !.pc = "open"]
    /\ info' = [info EXCEPT !.name = ConsumerName(sub.subject)]
    /\ srv' = [srv EXCEPT !.add = FALSE,
                          !.durable = IF opts.durable
                                      THEN [exists |-> TRUE,
                                            deliver_subject |-> info.config.deliver_subject,
                                            ack_policy |-> info.config.ack_policy]
                                      ELSE @]
    /\ monitor' = IF opts.api = "subscribe" /\ info.config.idle_heartbeat > 0
                  THEN NewIdleHeartbeat(monitor, info.config.idle_heartbeat, 0)
                  ELSE monitor
    /\ UNCHANGED <<pub, psub, opts, nc, app>>

\* ConsumerAdd failed: sub.unsubscribe(), and the call throws.
OpenAddFail ==
    /\ sub.pc = "adding"
    /\ srv.add
    /\ sub' = maybeCreateFailed(sub, "ConsumerAdd failed")
    /\ srv' = [srv EXCEPT !.add = FALSE]
    /\ UNCHANGED <<pub, psub, opts, info, monitor, nc, app>>

OpenInit ==
    /\ psub = PullIdle
    /\ opts = NoOpenOpts
    /\ sub = NoOpenSub
    /\ info = NoInfo
    /\ monitor = NoMonitor
    /\ nc = [connected |-> TRUE, inboxes |-> 0, acks |-> 0, inbound |-> NoFrame,
             maxWaitingToFail |-> FALSE, replies |-> <<>>,
             published |-> <<>>]
    /\ \E d \in Durables :
        srv = [durable |-> d, infos |-> 0, add |-> FALSE, adds |-> 0]
    /\ app = [yielded |-> <<>>, restarts |-> 0, errs |-> <<>>, ended |-> FALSE]

OpenNext ==
    \/ Open
    \/ OpenAddOk
    \/ OpenAddFail

SpecOpenInit == OpenInit /\ PubOff

SpecOpen == SpecOpenInit /\ [][OpenNext]_vars

(***************************************************************************)
(* _processOptions and _maybeCreateConsumer on the options of a caller     *)
(* that names no stream: the checks of an ordered consumer and the config  *)
(* synthesized for it, the look-up of a durable, the ConsumerAdd request   *)
(* and its answer. opts is the caller's option object, info is jsi,        *)
(* sub.pc is where the call stands, srv.durable is what the server answers *)
(* to ConsumerInfo, srv.honours whether its ConsumerAdd answer carries a   *)
(* filter_subjects list, srv.rpcs the requests sent so far.                *)
(***************************************************************************)

\* A field that is not set (undefined) where the field holds a number.
Undefined == -1

\* The subject the caller subscribes to.
Subject == "orders"

\* nanos(22 * 60 * 60 * 1000) and nanos(30 * 1000), in milliseconds
OrderedAckWait == 79200000

DefaultAckWait == 30000

ConfigOpts ==
    [ordered : BOOLEAN, ack_policy : AckPolicies, durable_name : {"", "d"},
     deliver_subject : {Undefined, UserSubject}, deliver_group : {"", "q"},
     max_deliver : {Undefined, 1, 2}, idle_heartbeat : {0, 1000},
     filter_subjects : {"undefined", "array"}]

\* A ConsumerConfig with nothing set.
NoConsumerConfig ==
    [durable_name |-> "", deliver_subject |-> Undefined, deliver_group |-> "",
     ack_policy |-> "NotSet", max_deliver |-> Undefined, flow_control |-> FALSE,
     idle_heartbeat |-> 0, ack_wait |-> 0, mem_storage |-> FALSE, num_replicas |-> 0,
     filter_subject |-> "", filter_subjects |-> "undefined", deliver_policy |-> "",
     replay_policy |-> ""]

NoConfigOpts ==
    [ordered |-> FALSE, ack_policy |-> "NotSet", durable_name |-> "",
     deliver_subject |-> Undefined, deliver_group |-> "", max_deliver |-> Undefined,
     idle_heartbeat |-> 0, filter_subjects |-> "undefined"]

\* jsi before the call.
NoJsi ==
    [ordered |-> FALSE,
     ordered_consumer_sequence |-> [stream_seq |-> Undefined, delivery_seq |-> Undefined],
     flow_control |-> [heartbeat_count |-> 0, fc_count |-> 0, consumer_restarts |-> 0],
     config |-> NoConsumerConfig, stream |-> "", attached |-> FALSE, isBind |-> FALSE,
     name |-> "", last |-> "", deliver |-> Undefined]

\* What the server answers to ConsumerInfo for the durable: 404, another
\* error, or the info of a push durable.
InfoAnswers ==
    {[status |-> "404", push_bound |-> FALSE, config |-> NoConsumerConfig],
     [status |-> "500", push_bound |-> FALSE, config |-> NoConsumerConfig]} \cup
    {[status |-> "ok", push_bound |-> b,
      config |-> [NoConsumerConfig EXCEPT !.durable_name = "d",
                                          !.deliver_subject = UserSubject,
                                          !.ack_policy = "Explicit",
                                          !.deliver_policy = "All",
                                          !.ack_wait = DefaultAckWait,
                                          !.replay_policy = "Instant",
                                          !.filter_subject = f,
                                          !.deliver_group = g]] :
        b \in BOOLEAN, f \in {"", Subject, "other"}, g \in {"", "q", "r"}}

\* A slip: max_deliver and deliver_group are not looked at.
configOrderedErrorThree(o) ==
    IF o.ack_policy \notin {"NotSet", "None"}
    THEN "ordered consumer: ack_policy can only be set to 'none'"
    ELSE IF o.durable_name # ""
    THEN "ordered consumer: durable_name cannot be set"
    ELSE IF o.deliver_subject # Undefined
    THEN "ordered consumer: deliver_subject cannot be set"
    ELSE ""

\* The error _processOptions throws for ordered options, "" when it accepts.
configOrderedError(o) ==
    IF o.ack_policy \notin {"NotSet", "None"}
    THEN "ordered consumer: ack_policy can only be set to 'none'"
    ELSE IF o.durable_name # ""
    THEN "ordered consumer: durable_name cannot be set"
    ELSE IF o.deliver_subject # Undefined
    THEN "ordered consumer: deliver_subject cannot be set"
    ELSE IF o.max_deliver # Undefined /\ o.max_deliver > 1
    THEN "ordered consumer: max_deliver cannot be set"
    ELSE IF o.deliver_group # ""
    THEN "ordered consumer: deliver_group cannot be set"
    ELSE ""

\* _processOptions to its first request: jsi with the config of the caller,
\* the config of an ordered consumer written over it (inbox is the next
\* fresh inbox), and the default of the ack policy.
configNormalize(o, inbox) ==
    LET given == [NoConsumerConfig EXCEPT !.durable_name = o.durable_name,
                                          !.deliver_subject = o.deliver_subject,
                                          !.deliver_group = o.deliver_group,
                                          !.ack_policy = o.ack_policy,
                                          !.max_deliver = o.max_deliver,
                                          !.idle_heartbeat = o.idle_heartbeat,
                                          !.filter_subjects = o.filter_subjects]
        c1 == IF o.ordered
              THEN [given EXCEPT !.deliver_subject = inbox,
                                 !.ack_policy = "None",
                                 !.max_deliver = 1,
                                 !.flow_control = TRUE,
                                 !.idle_heartbeat = IF @ = 0 THEN OrderedIdleHeartbeat ELSE @,
                                 !.ack_wait = OrderedAckWait,
                                 !.mem_storage = TRUE,
                                 !.num_replicas = 1]
              ELSE given
        c2 == IF c1.ack_policy = "NotSet" THEN [c1 EXCEPT !.ack_policy = "All"] ELSE c1
    IN  [NoJsi EXCEPT !.ordered = o.ordered,
                      !.ordered_consumer_sequence =
                          IF o.ordered THEN [stream_seq |-> 0, delivery_seq |-> 0] ELSE @,
                      !.config = c2,
                      !.stream = "found"]

\* A slip: the durable's config is adopted without the checks.
configLookupErrorNoChecks(jsi, answer) ==
    IF answer.status = "404" THEN ""
    ELSE IF answer.status # "ok" THEN "ConsumerInfo failed"
    ELSE ""

\* What the look-up of the durable throws for the server's answer, or "".
configLookupError(jsi, answer) ==
    LET qn == jsi.config.deliver_group
        rqn == answer.config.deliver_group
    IN  IF answer.status = "404" THEN ""
        ELSE IF answer.status # "ok" THEN "ConsumerInfo failed"
        ELSE IF answer.config.filter_subject # "" /\ answer.config.filter_subject # Subject
        THEN "subject does not match consumer"
        ELSE IF qn = "" /\ answer.push_bound
        THEN "duplicate subscription"
        ELSE IF qn # rqn
        THEN (IF rqn = "" THEN "durable requires no queue group"
              ELSE "durable requires queue group")
        ELSE ""

\* jsi after an answer the look-up accepts: last, config and attached.
configAttach(jsi, answer) ==
    IF answer.status = "ok"
    THEN [jsi EXCEPT !.last = "info", !.config = answer.config, !.attached = TRUE,
                     !.name = IF answer.config.durable_name = "" THEN "ephemeral" ELSE @]
    ELSE jsi

\* The end of _processOptions: the subject as filter when none is given,
\* and the deliver subject (inbox is the next fresh inbox).
configDeliver(jsi, inbox) ==
    LET c == IF ~jsi.attached /\ jsi.config.filter_subject = ""
                /\ jsi.config.filter_subjects = "undefined"
             THEN [jsi.config EXCEPT !.filter_subject = Subject]
             ELSE jsi.config
    IN  [jsi EXCEPT !.config = c,
                    !.deliver = IF c.deliver_subject # Undefined THEN c.deliver_subject
                                ELSE inbox]

\* The inboxes _processOptions has made when it returns jsi.
configInboxes(jsi) ==
    (IF jsi.ordered THEN 1 ELSE 0) + (IF jsi.config.deliver_subject = Undefined THEN 1 ELSE 0)

\* Array.isArray(v), for "array", "undefined", "true" and "false".
IsArray(v) == v = "array"

\* Array.isArray(requested && !Array.isArray(answered)): the operand of the
\* outer call is requested when that is undefined, else a boolean.
serverTooOld(requested, answered) ==
    LET negated == IF IsArray(answered) THEN "false" ELSE "true"
        operand == IF requested = "undefined" THEN "undefined" ELSE negated
    IN  IsArray(operand)

\* Object.assign({deliver_policy, ack_policy, ack_wait, replay_policy}, jsi.config)
configDefaults(c) ==
    [c EXCEPT !.deliver_policy = IF @ = "" THEN "All" ELSE @,
              !.ack_wait = IF @ = 0 THEN DefaultAckWait ELSE @,
              !.replay_policy = IF @ = "" THEN "Instant" ELSE @]

ConfigCallOf(o) ==
    /\ sub.pc = "new"
    /\ opts' = o
    /\ IF o.ordered /\ configOrderedError(o) # ""
       THEN /\ sub' = [sub EXCEPT !.pc = "failed", !.error = configOrderedError(o)]
            /\ info' = [info EXCEPT !.ordered = TRUE,
                                    !.ordered_consumer_sequence =
                                        [stream_seq |-> 0, delivery_seq |-> 0]]
            /\ UNCHANGED <<nc, srv>>
       ELSE LET jsi == configNormalize(o, nc.inboxes + 1)
            IN  IF jsi.config.durable_name # ""
                THEN /\ sub' = [sub EXCEPT !.pc = "info"]
                     /\ info' = jsi
                     /\ nc' = [nc EXCEPT !.inboxes = IF o.ordered THEN @ + 1 ELSE @]
                     /\ srv' = [srv EXCEPT !.rpcs = @ \o <<"STREAM.NAMES", "CONSUMER.INFO">>]
                ELSE /\ sub' = [sub EXCEPT !.pc = "processed"]
                     /\ info' = configDeliver(jsi, nc.inboxes + 1 + (IF o.ordered THEN 1 ELSE 0))
                     /\ nc' = [nc EXCEPT !.inboxes = @ + configInboxes(jsi)]
                     /\ srv' = [srv EXCEPT !.rpcs = Append(@, "STREAM.NAMES")]
    /\ UNCHANGED <<pub, psub, monitor, app>>

\* _processOptions(Subject, o) to its return, its throw or its ConsumerInfo
\* request.
ConfigCall == \E o \in ConfigOpts : ConfigCallOf(o)

\* ConsumerInfo answered: the rest of _processOptions.
ConfigInfoAnswer ==
    /\ sub.pc = "info"
    /\ LET err == configLookupError(info, srv.durable)
           jsi == configAttach(info, srv.durable)
       IN  IF err # ""
           THEN /\ sub' = [sub EXCEPT !.pc = "failed", !.error = err]
                /\ UNCHANGED <<info, nc>>
           ELSE /\ sub' = [sub EXCEPT !.pc = "processed"]
                /\ info' = configDeliver(jsi, nc.inboxes + 1)
                /\ nc' = [nc EXCEPT !.inboxes =
                                        IF jsi.config.deliver_subject = Undefined
                                        THEN @ + 1 ELSE @]
    /\ UNCHANGED <<pub, psub, opts, monitor, srv, app>>

\* _maybeCreateConsumer(jsi) to its return or its ConsumerAdd request; the
\* options are a plain object, so isBind is false.
ConfigMaybeCreate ==
    /\ sub.pc = "processed"
    /\ IF info.attached
       THEN /\ sub' = [sub EXCEPT !.pc = "done"]
            /\ UNCHANGED <<info, srv>>
       ELSE /\ sub' = [sub EXCEPT !.pc = "adding"]
            /\ info' = [info EXCEPT !.config = configDefaults(@)]
            /\ srv' = [srv EXCEPT !.rpcs = Append(@, "CONSUMER.CREATE")]
    /\ UNCHANGED <<pub, psub, opts, monitor, nc, app>>

\* ConsumerAdd answered: the server gives the consumer a name and returns
\* the config, with the filter_subjects list only if it knows of them.
ConfigAddAnswer ==
    /\ sub.pc = "adding"
    /\ LET answered == [info.config EXCEPT !.filter_subjects =
                                               IF srv.honours THEN @ ELSE "undefined"]
       IN  IF serverTooOld(info.config.filter_subjects, answered.filter_subjects)
           THEN /\ sub' = [sub EXCEPT !.pc = "failed",
                                      !.error = "jetstream server doesn't support consumers with multiple filter subjects"]
                /\ UNCHANGED info
           ELSE /\ sub' = [sub EXCEPT !.pc = "done"]
                /\ info' = [info EXCEPT !.name = "created", !.config = answered,
                                        !.last = "add"]
    /\ UNCHANGED <<pub, psub, opts, monitor, nc, srv, app>>

\* ConsumerAdd failed: _maybeCreateConsumer throws.
ConfigAddFail ==
    /\ sub.pc = "adding"
    /\ sub' = [sub EXCEPT !.pc = "failed", !.error = "ConsumerAdd failed"]
    /\ UNCHANGED <<pub, psub, opts, info, monitor, nc, srv, app>>

ConfigInit ==
    /\ psub = PullIdle
    /\ opts = NoConfigOpts
    /\ sub = [pc |-> "new", error |-> ""]
    /\ info = NoJsi
    /\ monitor = NoMonitor
    /\ nc = [connected |-> TRUE, inboxes |-> 0]
    /\ \E d \in InfoAnswers, h \in BOOLEAN :
        srv = [durable |-> d, honours |-> h, rpcs |-> <<>>]
    /\ app = [yielded |-> <<>>, restarts |-> 0, errs |-> <<>>, ended |-> FALSE]

ConfigNext ==
    \/ ConfigCall
    \/ ConfigInfoAnswer
    \/ ConfigMaybeCreate
    \/ ConfigAddAnswer
    \/ ConfigAddFail

SpecConfigInit == ConfigInit /\ PubOff

SpecConfig == SpecConfigInit /\ [][ConfigNext]_vars

(***************************************************************************)
(* Placeholders (the other specifications' variables at rest).             *)
(***************************************************************************)
SubIdle ==
    /\ opts = [pc |-> "off"]
    /\ sub = [pc |-> "off"]
    /\ info = [pc |-> "off"]
    /\ monitor = [pc |-> "off"]
    /\ nc = [pc |-> "off"]
    /\ srv = [pc |-> "off"]
    /\ app = [pc |-> "off"]

SpecPublishInit == PubInit /\ PullOff /\ SubIdle

SpecPublish == SpecPublishInit /\ [][PubNext]_vars


(***************************************************************************)
(* Properties of publish(), checked under SpecPublish.                     *)
(***************************************************************************)

\* The number of attempts the caller asked for: retries, 1 when not given.
PubAttempts == IF pub.optRetries = 0 THEN 1 ELSE pub.optRetries

PubLast == IF Len(pub.log) = 0 THEN "none" ELSE pub.log[Len(pub.log)]

PubFailedWith(code) ==
    /\ pub.pc = "done"
    /\ pub.result.kind = "error"
    /\ pub.result.code = code

\* C8: publish() issues a further request only after a request failed with
\* code 503 while attempts remained; a request that fails with another error
\* makes publish fail with that error at once, with no further request; a 503
\* on the last allowed attempt is surfaced to the caller.
C8_RetryOnlyOn503 ==
    /\ \A k \in 1..Len(pub.log) : k < pub.requests => (pub.log[k] = "503" /\ k < PubAttempts)
    /\ pub.requests \in {Len(pub.log), Len(pub.log) + 1}
    /\ pub.requests = Len(pub.log) + 1 => pub.pc = "request"
    /\ PubLast \in (ErrorCodes \ {"503"}) =>
           (PubFailedWith(PubLast) /\ pub.requests = Len(pub.log))
    /\ (PubLast = "503" /\ Len(pub.log) = PubAttempts) =>
           (PubFailedWith("503") /\ pub.requests = Len(pub.log))
    /\ (PubLast = "503" /\ Len(pub.log) < PubAttempts) => pub.pc \in {"delay", "request"}

\* A publish with attempts left that failed at once on an error other than 503.
C8_Witness ==
    /\ pub.log = <<"503", "TIMEOUT">>
    /\ PubAttempts = 3
    /\ PubFailedWith("TIMEOUT")

Count503(log) == Cardinality({k \in 1..Len(log) : log[k] = "503"})

\* C9 as stated: at most n wire requests, at most n-1 of them receive a 503,
\* and publish is over after at most n attempts.
C9_AtMostNMinus1Get503 ==
    /\ pub.requests <= PubAttempts
    /\ Count503(pub.log) <= PubAttempts - 1
    /\ Len(pub.log) = PubAttempts => pub.pc = "done"

\* C9 (amended): at most n wire requests are emitted, each of the n may
\* receive a 503 but at most n-1 of the 503s are followed by another request
\* (the 503 of the n-th attempt is surfaced), and publish is over after at
\* most n attempts.
C9_AtMostNRequests ==
    /\ pub.requests <= PubAttempts
    /\ Count503(pub.log) <= PubAttempts
    /\ Cardinality({k \in 1..Len(pub.log) : pub.log[k] = "503" /\ k < pub.requests})
           <= PubAttempts - 1
    /\ Count503(pub.log) = PubAttempts => PubFailedWith("503")
    /\ Len(pub.log) = PubAttempts => pub.pc = "done"

\* Every one of three allowed attempts received a 503.
C9_Witness ==
    /\ PubAttempts = 3
    /\ pub.requests = 3
    /\ Count503(pub.log) = 3
    /\ pub.pc = "done"

\* C10: a reply whose ack has stream == "" makes publish fail with InvalidAck
\* and no further request is issued, even with retries left; an ack with a
\* stream is returned with a boolean duplicate that is false when the reply
\* omitted it.
C10_InvalidAckNotRetried ==
    PubLast = "ok" =>
        /\ pub.pc = "done"
        /\ pub.requests = Len(pub.log)
        /\ pub.r.stream = "" => PubFailedWith("INVALID_ACK")
        /\ pub.r.stream # "" =>
               /\ pub.result.kind = "ack"
               /\ pub.result.stream = pub.r.stream
               /\ pub.result.duplicate \in BOOLEAN
               /\ pub.r.duplicate = "absent" => pub.result.duplicate = FALSE
               /\ pub.result.duplicate = TRUE => pub.r.duplicate = "true"

\* An ack without a stream arrived on the first of three allowed attempts.
C10_Witness ==
    /\ PubFailedWith("INVALID_ACK")
    /\ pub.log = <<"ok">>
    /\ pub.i + 1 < pub.retries

(***************************************************************************)
(* Properties of ordered subscriptions, checked under SpecSub.             *)
(***************************************************************************)

Ordered == info.ordered_consumer_sequence

Restarts == info.flow_control.consumer_restarts

\* A step in which the pipeline of the subscription takes a message in: the
\* callback is handed it, or the iterator queues it.
Accepted ==
    IF sub.noIterator
    THEN app'.yielded # app.yielded
    ELSE Len(sub'.yields) = Len(sub.yields) + 1

\* The message taken in by such a step.
AcceptedMsg ==
    IF sub.noIterator
    THEN app'.yielded[Len(app'.yielded)]
    ELSE sub'.yields[Len(sub'.yields)]

\* C1: on an ordered subscription every data message _checkOrderedConsumer
\* accepts has new.delivery_seq = old.delivery_seq + 1 and new.stream_seq >=
\* old.stream_seq + 1, old and new being ordered_consumer_sequence before and
\* after the message; the recorded sequences are those of the message, and
\* no other step moves the recorded stream_seq.
C1_AcceptedInSequence ==
    [][info.ordered =>
          IF Accepted
          THEN /\ Ordered'.delivery_seq = Ordered.delivery_seq + 1
               /\ Ordered'.stream_seq >= Ordered.stream_seq + 1
               /\ AcceptedMsg.dseq = Ordered'.delivery_seq
               /\ AcceptedMsg.sseq = Ordered'.stream_seq
          ELSE /\ Ordered'.stream_seq = Ordered.stream_seq
               /\ Ordered'.delivery_seq \in {Ordered.delivery_seq, 0}]_vars

\* After a recreate the first message of the new consumer was accepted, and
\* it is not the message that follows the last one of the old consumer.
C1_Witness ==
    /\ info.ordered
    /\ Restarts >= 1
    /\ Ordered = [stream_seq |-> 2, delivery_seq |-> 1]
    /\ nc.inbound = DataMsg(2, 1)
    /\ app.yielded = <<DataMsg(2, 1)>>

\* The stream sequences of a sequence of messages increase strictly.
Increasing(q) == \A i, j \in 1..Len(q) : i < j => q[i].sseq < q[j].sseq

\* What the application was handed, followed by what the iterator has queued
\* for it.
Stream == app.yielded \o sub.yields

\* The recreate requests a step sends.
NewRequests == srv'.reqs \ srv.reqs

\* A step that sends one recreate request, for the sequence after the
\* recorded stream_seq, and counts one more restart.
OneRecreateAtNext ==
    /\ srv.reqs \subseteq srv'.reqs
    /\ Cardinality(NewRequests) = 1
    /\ \A req \in NewRequests :
           /\ req.config.opt_start_seq = Ordered.stream_seq + 1
           /\ req.config.deliver_policy = "StartSequence"
           /\ req.inbox = sub'.subject
    /\ Restarts' = Restarts + 1

\* A step that hands the application nothing: no message, no error.
NothingSurfaced ==
    /\ app' = app
    /\ sub'.yields = sub.yields
    /\ sub'.err = sub.err
    /\ sub'.done = sub.done

\* C2: on an open ordered subscription a data message whose delivery
\* sequence is not the recorded delivery_seq + 1 is not delivered to the
\* application, leaves the recorded stream_seq as it is, adds exactly one to
\* consumer_restarts, surfaces no error and sends exactly one recreate request,
\* with opt_start_seq the recorded stream_seq + 1.
C2_GapRecreates ==
    [][\A sseq \in 1..MaxStream :
          (/\ info.ordered
           /\ srv.cons.dseq + 1 # Ordered.delivery_seq + 1
           /\ DataFrameOf(sseq, FALSE))
          => /\ NothingSurfaced
             /\ Ordered'.stream_seq = Ordered.stream_seq
             /\ OneRecreateAtNext]_vars

\* The first message of the consumer was lost and the subscription received
\* the second: it has delivered nothing and is recreating from sequence 1.
C2_Witness ==
    /\ info.ordered
    /\ nc.inbound = DataMsg(2, 2)
    /\ Ordered = [stream_seq |-> 0, delivery_seq |-> 0]
    /\ Restarts = 1
    /\ \E req \in srv.reqs : req.config.opt_start_seq = 1
    /\ monitor.missed = 0
    /\ Stream = <<>>
    /\ app.errs = <<>>

\* C3 as stated: across recreates the messages yielded have strictly
\* increasing stream sequences, and the first message yielded after a
\* recreate has delivery_seq 1 and a stream_seq at or after the start sequence
\* the recreate asked for (info.config.opt_start_seq is the start of the last
\* recreate, or of one before it when that one's answer came last).
C3_FirstYieldedIsNew ==
    /\ [](info.ordered => Increasing(Stream))
    /\ [][(/\ info.ordered
           /\ Len(app'.yielded) = Len(app.yielded) + 1
           /\ Restarts > app.restarts)
          => /\ app'.yielded[Len(app'.yielded)].dseq = 1
             /\ app'.yielded[Len(app'.yielded)].sseq >= info.config.opt_start_seq]_vars

\* C3 (amended): across recreates the messages yielded have strictly
\* increasing stream sequences; the messages accepted before a recreate are
\* yielded as they were queued, and the first message accepted after a
\* recreate has delivery_seq 1 and a stream_seq at or after the start sequence
\* that recreate asked for, which is the sequence after the last message
\* accepted before it.
C3_FirstAcceptedIsNew ==
    /\ [](info.ordered => Increasing(Stream))
    /\ [][(/\ info.ordered
           /\ Accepted
           /\ Restarts >= 1
           /\ Ordered.delivery_seq = 0)
          => /\ AcceptedMsg.dseq = 1
             /\ AcceptedMsg.sseq >= srv.cons.start
             /\ srv.cons.start = Ordered.stream_seq + 1]_vars

\* The application was yielded the first message of the first consumer and,
\* after a recreate, the first message of the second.
C3_Witness ==
    /\ info.ordered
    /\ ~sub.noIterator
    /\ Restarts = 1
    /\ app.yielded = <<DataMsg(1, 1), DataMsg(2, 1)>>
    /\ app.restarts = 1

\* C4: a subscription made with the ordered flag has ack policy None in its
\* consumer config in every state (after _processOptions, in every recreate
\* request and after every answer to one), auto-ack is never its dispatched
\* hook, and the client sends no ack for a message delivered on it.
C4_OrderedNeverAcks ==
    (opts.ordered /\ sub.pc \in {"adding", "open"}) =>
        /\ info.ordered
        /\ info.config.ack_policy = "None"
        /\ opts.ack_policy = "None"
        /\ \A req \in srv.reqs : req.config.ack_policy = "None"
        /\ ~sub.autoAck
        /\ nc.acks = 0

\* An ordered subscription made without manual ack has handed the application
\* two messages, one of them after a recreate whose answer it has adopted.
C4_Witness ==
    /\ opts.ordered
    /\ ~opts.mack
    /\ Restarts = 1
    /\ srv.reqs = {}
    /\ info.config.deliver_policy = "StartSequence"
    /\ Len(app.yielded) = 2
    /\ nc.acks = 0

(***************************************************************************)
(* Properties of the heartbeat monitor: C5 under SpecPull, C6 and C7 under *)
(* SpecSub.                                                                *)
(***************************************************************************)

\* A tick of the monitor that makes it call its handler: the count of ticks
\* without a frame reaches maxOut.
Escalation == monitor.missed + 1 >= MaxOut /\ MonitorTick

\* The error the application is to see for v missed heartbeats.
IdleHeartbeatMissedError(v) ==
    [code |-> "JetStreamIdleHeartBeat", message |-> "IdleHeartbeatMissed", seq |-> v]

\* C5 as stated: a subscription has at most one active monitor at every
\* moment (pull() cancels the previous one before it arms one), a pull()
\* without both expires and idle_heartbeat leaves no active monitor, and once
\* the subscription is closed no monitor remains active.
C5_AtMostOneMonitor ==
    /\ monitor.live <= 1
    /\ (psub.published > 0 /\ (psub.last.expires = 0 \/ psub.last.idle_heartbeat = 0))
           => monitor.live = 0
    /\ sub.closed => monitor.live = 0

C7_OrderedEscalation ==
    [][(info.ordered /\ Escalation)
       => /\ NothingSurfaced
          /\ Ordered'.stream_seq = Ordered.stream_seq
          /\ IF nc.connected
             THEN OneRecreateAtNext
             ELSE /\ info' = info
                  /\ sub' = sub
                  /\ srv' = srv
                  /\ nc' = nc]_vars

\* An ordered subscription that received no frame saw two escalations, one
\* while disconnected and one while connected: it made one recreate.
C7_Witness ==
    /\ info.ordered
    /\ nc.inbound = NoFrame
    /\ monitor.missed = MaxOut + 1
    /\ Restarts = 1
    /\ \E req \in srv.reqs : req.config.opt_start_seq = 1
    /\ Stream = <<>>
    /\ app.errs = <<>>

(***************************************************************************)
(* Fetch: what ends it.                                                    *)
(***************************************************************************)
Terminated == psub.pc = "fetching" /\ app.ended

\* The five ends the design document lists, and the three more of the code:
\* a status frame that is not terminal, missed heartbeats, and the inbox
\* closing after max frames.
FiveCauses == {"batch", "bytes", "pending", "expires", "terminal"}

AllCauses == FiveCauses \cup {"status", "missed", "max"}

Named409 ==
    {"MaxBatchExceeded", "MaxExpiresExceeded", "MaxBytesExceeded", "MaxMessageSizeExceeded"}

\* The error a 409 frame with description d is classified as.
Error409(d) == [code |-> "409", message |-> d, seq |-> 0]

\* A read of an iterator (of the fetch or of the subscription) that was
\* stopped with an error rejects with that error.
ReadRejects ==
    (sub.err # NullErr /\ (FetchIterNext \/ IterNext)) =>
        app'.ended /\ app'.errs = Append(app.errs, sub.err)

\* C12: a terminal 409 frame (MaxBatchExceeded, MaxExpiresExceeded,
\* MaxBytesExceeded, MaxMessageSizeExceeded) that answers a pull request is
\* surfaced in all three modes: a fetch iterator and a pull subscription's
\* iterator that were not stopped before are stopped with an error whose
\* message is the condition, which the next read rejects with; a
\* callback-mode pull subscription's callback is handed that error.
C12_Terminal409Surfaced ==
    [][\A d \in Named409 :
        /\ (FetchStatusOf(409, d) /\ ~sub.done) =>
               sub'.done /\ sub'.err = Error409(d)
        /\ (PullStatusOf(409, d) /\ ~sub.noIterator /\ ~sub.done) =>
               sub'.done /\ sub'.err = Error409(d)
        /\ (PullStatusOf(409, d) /\ sub.noIterator) =>
               app'.errs = Append(app.errs, Error409(d))
        /\ ReadRejects]_vars

\* The three modes, each after a MaxBatchExceeded frame: the two iterators
\* rejected with it, the callback received it.
C12_WitnessFetch ==
    /\ psub.pc = "fetching"
    /\ nc.inbound.description = "MaxBatchExceeded"
    /\ app.ended
    /\ app.errs = <<Error409("MaxBatchExceeded")>>

C12_WitnessIter ==
    /\ psub.pc = "on"
    /\ ~sub.noIterator
    /\ nc.inbound.description = "MaxBatchExceeded"
    /\ app.ended
    /\ app.errs = <<Error409("MaxBatchExceeded")>>

C12_WitnessCb ==
    /\ psub.pc = "on"
    /\ sub.noIterator
    /\ nc.inbound.description = "MaxBatchExceeded"
    /\ app.errs = <<Error409("MaxBatchExceeded")>>

\* The error a status frame of kind k = <<code, description>> is classified as.
ErrorOf(k) == checkJsError(StatusMsg(k[1], k[2]))

\* The status frames that are not terminal: 404, 408, and the 409s that
\* isTerminal409 does not name.
NonTerminal(k) == hideNonTerminalJsErrors(ErrorOf(k)) = NullErr

\* The application reads an iterator: of a fetch, or of a subscription.
Iterated == psub.pc = "fetching" \/ (psub.pc = "on" /\ ~sub.noIterator)

\* No error an iterator holds or rejected with is a non-terminal one.
NoTransientError ==
    Iterated =>
        /\ hideNonTerminalJsErrors(sub.err) = sub.err
        /\ \A i \in 1..Len(app.errs) : hideNonTerminalJsErrors(app.errs[i]) = app.errs[i]

\* C13: a non-terminal status frame (404, 408, a 409 that is not terminal)
\* never reaches an iterator as an error, of a fetch or of a subscription:
\* the frame sets no error, and no error an iterator holds or rejected with
\* is a non-terminal one; in callback mode every classified error frame,
\* terminal or not, is handed to the callback as classified.
C13_NonTerminalHidden ==
    [][/\ NoTransientError'
       /\ \A k \in StatusFrames :
            /\ (FetchStatusOf(k[1], k[2]) /\ NonTerminal(k)) =>
                   sub'.err \in {NullErr, sub.err} /\ app' = app
            /\ (PullStatusOf(k[1], k[2]) /\ ~sub.noIterator /\ NonTerminal(k)) =>
                   sub'.err = sub.err /\ sub'.done = sub.done /\ app' = app
            /\ (PullStatusOf(k[1], k[2]) /\ sub.noIterator) =>
                   app'.errs = Append(app.errs, ErrorOf(k))]_vars

\* A 408 reached an iterated pull subscription: no error, the iterator goes on.
C13_WitnessIter ==
    /\ psub.pc = "on"
    /\ ~sub.noIterator
    /\ nc.inbound.code = 408
    /\ sub.err = NullErr
    /\ ~sub.done
    /\ app.errs = <<>>

\* A 404 ended a fetch: the iterator ended with no error.
C13_WitnessFetch ==
    /\ psub.pc = "fetching"
    /\ nc.inbound.code = 404
    /\ app.ended
    /\ app.errs = <<>>

\* A 404 reached a callback: the callback got it.
C13_WitnessCb ==
    /\ psub.pc = "on"
    /\ sub.noIterator
    /\ nc.inbound.code = 404
    /\ app.errs = <<[code |-> "404", message |-> "NoMessages", seq |-> 0]>>

MaxWaiting == Error409("MaxWaitingExceeded")

\* C14: a 409 MaxWaitingExceeded frame stops a fetch iterator and a pull
\* subscription's iterator with that error (which the next read rejects
\* with) exactly when setMaxWaitingToFail(true) was called; with the flag
\* unset the frame leaves no error on either iterator; a callback is handed
\* the error in both cases.
C14_MaxWaitingByFlag ==
    [][/\ (FetchStatusOf(409, "MaxWaitingExceeded") /\ ~sub.done) =>
              /\ sub'.done
              /\ sub'.err = IF nc.maxWaitingToFail THEN MaxWaiting ELSE NullErr
       /\ (PullStatusOf(409, "MaxWaitingExceeded") /\ ~sub.noIterator /\ ~sub.done) =>
              IF nc.maxWaitingToFail
              THEN sub'.done /\ sub'.err = MaxWaiting
              ELSE ~sub'.done /\ sub'.err = NullErr /\ app' = app
       /\ (PullStatusOf(409, "MaxWaitingExceeded") /\ sub.noIterator) =>
              app'.errs = Append(app.errs, MaxWaiting)
       /\ (sub.err = MaxWaiting /\ (FetchIterNext \/ IterNext)) =>
              app'.ended /\ app'.errs = Append(app.errs, MaxWaiting)
       /\ (Iterated /\ ~nc.maxWaitingToFail) =>
              \A i \in 1..Len(app'.errs) : app'.errs[i] # MaxWaiting]_vars

\* With the flag set, a fetch rejected with MaxWaitingExceeded.
C14_WitnessSet ==
    /\ nc.maxWaitingToFail
    /\ psub.pc = "fetching"
    /\ nc.inbound.description = "MaxWaitingExceeded"
    /\ app.ended
    /\ app.errs = <<MaxWaiting>>

\* With the flag unset, the same frame ended a fetch with no error.
C14_WitnessUnset ==
    /\ ~nc.maxWaitingToFail
    /\ psub.pc = "fetching"
    /\ nc.inbound.description = "MaxWaitingExceeded"
    /\ app.ended
    /\ app.errs = <<>>

(***************************************************************************)
(* Flow control.                                                           *)
(***************************************************************************)
\* The replies published to reply subject r.
Replies(r) == Cardinality({i \in 1..Len(nc.replies) : nc.replies[i] = r})

\* The flow-control frame with reply subject r waits in the iterator's queue.
Queued(r) == \E i \in 1..Len(sub.yields) : ReplyOf(sub.yields[i]) = r

C15_WitnessCb ==
    /\ sub.noIterator
    /\ srv.fc = 2
    /\ nc.replies = <<1, 2>>
    /\ Len(app.yielded) = 1

(***************************************************************************)
(* Heartbeats on a fetch.                                                  *)
(***************************************************************************)
\* C16 (as stated, on a fetch): for every idle heartbeat received exactly
\* one work() call is made on the monitor, and no heartbeat is yielded.
C16_OneWorkPerHeartbeat ==
    psub.pc = "fetching" =>
        /\ psub.hbWorks = psub.hbs
        /\ \A i \in 1..Len(app.yielded) : ~isHeartbeatMsg(app.yielded[i])

(***************************************************************************)
(* pull(opts) with idle_heartbeat.                                         *)
(***************************************************************************)
\* C18 (as stated): pull(o) with idle_heartbeat > 0 succeeds only when
\* expires > idle_heartbeat; otherwise (expires absent, smaller or equal) it
\* throws, publishes no pull request and leaves the monitor as it was.
C18_HeartbeatNeedsLongerExpires ==
    [][\A o \in PullOptions :
        (PullOf(o) /\ o.idle_heartbeat > 0) =>
            IF o.expires > o.idle_heartbeat
            THEN psub'.threw # "" => psub'.published = psub.published /\ monitor' = monitor
            ELSE /\ psub'.threw # ""
                 /\ psub'.published = psub.published
                 /\ monitor' = monitor]_vars

C19_WitnessPublished ==
    /\ psub.pc = "fetching"
    /\ psub.args.no_wait /\ psub.args.expires = 0
    /\ psub.published = 1
    /\ psub.reply = sub.subject

(***************************************************************************)
(* Binding, and the options subscribe() and pullSubscribe() accept.        *)
(***************************************************************************)
\* C17: subscribe() or pullSubscribe() with bind-only options that name a
\* durable the server does not have fails with an error and issues no
\* ConsumerAdd; the subscription it built, if the options got that far (as
\* they do for a non-ordered subscribe), is left unsubscribed.
C17_BindToMissingDurable ==
    [][\A o \in OpenOpts :
        (OpenOf(o) /\ o.isBind /\ ~srv.durable.exists) =>
            /\ sub'.pc = "failed"
            /\ sub'.error # ""
            /\ srv'.adds = srv.adds /\ ~srv'.add
            /\ sub'.created => sub'.closed
            /\ (o.api = "subscribe" /\ ~o.ordered) =>
                   /\ sub'.created
                   /\ sub'.error = "unable to bind - durable consumer doesn't exist"]_vars

\* A bind to a missing durable failed: one ConsumerInfo, no ConsumerAdd, the
\* subscription built and unsubscribed.
C17_Witness ==
    /\ opts.isBind
    /\ ~srv.durable.exists
    /\ sub.pc = "failed"
    /\ sub.error = "unable to bind - durable consumer doesn't exist"
    /\ sub.created /\ sub.closed
    /\ srv.infos = 1
    /\ srv.adds = 0

\* The call got past its checks: it built a subscription.
Accepted20 == sub.pc \in {"adding", "open"} \/ (sub.pc = "failed" /\ sub.created)

\* C20: pullSubscribe() gets past its checks, and so succeeds, only with
\* resolved options that are not ordered, have no deliver_subject and have
\* ack policy explicit; subscribe() only with bind options or a resolved
\* deliver_subject; a call that is rejected fails with no subscription built
\* and no ConsumerAdd issued.
C20_AcceptedOptions ==
    [][/\ (Accepted20' /\ opts'.api = "pullSubscribe") =>
              /\ ~info'.ordered
              /\ info'.config.deliver_subject = -1
              /\ info'.config.ack_policy = "Explicit"
       /\ (Accepted20' /\ opts'.api = "subscribe") =>
              info'.isBind \/ info'.config.deliver_subject # -1
       /\ sub'.pc = "open" => Accepted20 \/ Accepted20'
       /\ (sub'.pc = "failed" /\ ~sub'.created) =>
              /\ sub' = [NoOpenSub EXCEPT !.pc = "failed", !.error = sub'.error]
              /\ srv'.adds = 0 /\ ~srv'.add]_vars

\* pullSubscribe() with ack policy none was rejected: nothing built, nothing
\* added.
C20_Witness ==
    /\ opts.api = "pullSubscribe"
    /\ ~opts.ordered /\ ~opts.deliver_subject
    /\ info.config.ack_policy = "None"
    /\ sub.pc = "failed"
    /\ sub.error = "ack policy for pull consumers must be explicit"
    /\ ~sub.created
    /\ srv.adds = 0

\* subscribe() with neither bind nor deliver_subject was rejected.
C20_WitnessPush ==
    /\ opts.api = "subscribe"
    /\ sub.pc = "failed"
    /\ sub.error = "push consumer requires deliver_subject"
    /\ ~sub.created
    /\ srv.adds = 0

\* pullSubscribe() with default options went on to add its consumer.
C20_WitnessAccepted ==
    /\ opts.api = "pullSubscribe"
    /\ sub.pc = "open"
    /\ info.config.ack_policy = "Explicit"
    /\ srv.adds = 1


(***************************************************************************)
(* C21: _processOptions with the ordered flag rejects, before any request  *)
(* is sent, every option set with an ack policy other than NotSet or None, *)
(* a durable_name, a deliver_subject, a deliver_group or max_deliver > 1;  *)
(* every ordered option set it accepts yields a config with a fresh inbox  *)
(* as deliver_subject, ack_policy None, max_deliver 1, flow_control true,  *)
(* idle_heartbeat 5 s when none was given, mem_storage true,               *)
(* num_replicas 1, and ordered_consumer_sequence {0, 0}.                   *)
(***************************************************************************)
OrderedForbids(o) ==
    \/ o.ack_policy \notin {"NotSet", "None"}
    \/ o.durable_name # ""
    \/ o.deliver_subject # Undefined
    \/ o.deliver_group # ""
    \/ o.max_deliver > 1

C21_OrderedOptions ==
    [][(sub.pc = "new" /\ sub'.pc # "new" /\ opts'.ordered) =>
         IF OrderedForbids(opts')
         THEN /\ sub'.pc = "failed"
              /\ srv'.rpcs = <<>>
              /\ nc' = nc
         ELSE /\ sub'.pc = "processed"
              /\ info'.config.deliver_subject = nc.inboxes + 1
              /\ info'.deliver = info'.config.deliver_subject
              /\ nc'.inboxes >= info'.config.deliver_subject
              /\ info'.config.ack_policy = "None"
              /\ info'.config.max_deliver = 1
              /\ info'.config.flow_control
              /\ info'.config.idle_heartbeat =
                     (IF opts'.idle_heartbeat = 0 THEN OrderedIdleHeartbeat
                      ELSE opts'.idle_heartbeat)
              /\ info'.config.mem_storage
              /\ info'.config.num_replicas = 1
              /\ info'.ordered_consumer_sequence = [stream_seq |-> 0, delivery_seq |-> 0]
    ]_vars

\* An ordered option set was accepted and got the default idle_heartbeat.
C21_Witness ==
    /\ sub.pc = "processed"
    /\ opts.ordered
    /\ opts.idle_heartbeat = 0
    /\ info.config.idle_heartbeat = OrderedIdleHeartbeat
    /\ info.config.deliver_subject = 1

\* An ordered option set was rejected for its max_deliver alone.
C21_WitnessRejected ==
    /\ sub.pc = "failed"
    /\ opts.ordered
    /\ opts.max_deliver = 2
    /\ opts.ack_policy = "None"
    /\ opts.durable_name = ""
    /\ opts.deliver_subject = Undefined
    /\ opts.deliver_group = ""

(***************************************************************************)
(* Non-terminal 409s during a fetch.                                       *)
(***************************************************************************)
\* The server answers with 409 MaxWaitingExceeded while the client has not
\* made that condition terminal.
QuietStatus == FetchStatusOf(409, "MaxWaitingExceeded") /\ ~nc.maxWaitingToFail

C23_TooOldServerRejected ==
    [][(ConfigAddAnswer /\ info.config.filter_subjects = "array" /\ ~srv.honours) =>
           /\ sub'.pc = "failed"
           /\ sub'.error =
                  "jetstream server doesn't support consumers with multiple filter subjects"
           /\ info'.name = info.name
           /\ info'.config = info.config
           /\ info'.last = info.last]_vars

(***************************************************************************)
(* C24: in _processOptions with a durable_name, attached becomes true and  *)
(* the server's config is adopted if and only if the ConsumerInfo request  *)
(* succeeded and none of the three checks failed (the durable's            *)
(* filter_subject differs from the subject; the server reports push_bound  *)
(* and no queue group was given; the queue group differs from the          *)
(* server's deliver_group). A 404 leaves attached false and the call goes  *)
(* on; any other failure of the request and any failed check make the      *)
(* call fail with the config not adopted.                                  *)
(***************************************************************************)
SubjectMismatch == srv.durable.config.filter_subject \notin {"", Subject}

DuplicateBind == srv.durable.push_bound /\ opts.deliver_group = ""

GroupMismatch == opts.deliver_group # srv.durable.config.deliver_group

LookupPasses ==
    /\ srv.durable.status = "ok"
    /\ ~SubjectMismatch
    /\ ~DuplicateBind
    /\ ~GroupMismatch

C24_DurableLookup ==
    [][ConfigInfoAnswer =>
          /\ info'.attached <=> LookupPasses
          /\ info'.config = srv.durable.config <=> LookupPasses
          /\ LookupPasses => sub'.pc = "processed" /\ info'.last = "info"
          /\ srv.durable.status = "404" =>
                 /\ sub'.pc = "processed"
                 /\ ~info'.attached
                 /\ info'.config.durable_name = opts.durable_name
                 /\ info'.config.deliver_group = opts.deliver_group
          /\ (srv.durable.status # "404" /\ ~LookupPasses) =>
                 /\ sub'.pc = "failed"
                 /\ sub'.error # ""
                 /\ info' = info]_vars

\* Attached to a durable with a queue group, whose config replaced the
\* caller's.
C24_Witness ==
    /\ sub.pc = "processed"
    /\ opts.durable_name = "d"
    /\ opts.deliver_group = "q"
    /\ opts.ack_policy = "None"
    /\ srv.durable.push_bound
    /\ info.attached
    /\ info.config.ack_policy = "Explicit"

\* The durable does not exist: the call went on unattached.
C24_WitnessNotFound ==
    /\ sub.pc = "processed"
    /\ opts.durable_name = "d"
    /\ srv.durable.status = "404"
    /\ ~info.attached

\* The durable has another queue group: the call failed.
C24_WitnessFailed ==
    /\ sub.pc = "failed"
    /\ sub.error = "durable requires queue group"
    /\ srv.rpcs = <<"STREAM.NAMES", "CONSUMER.INFO">>

(***************************************************************************)
(* The consumer recreate.                                                  *)
(***************************************************************************)
\* A step of an open subscription in which _resetOrderedConsumer ran: any of
\* its effects shows.
Recreated ==
    /\ sub.pc = "open"
    /\ \/ Restarts' # Restarts
       \/ NewRequests # {}
       \/ sub'.subject # sub.subject
       \/ info'.deliver # info.deliver
       \/ nc'.inboxes # nc.inboxes

\* C25: each execution of _resetOrderedConsumer(sseq) on an open
\* subscription sets delivery_seq, heartbeat_count and fc_count to 0, adds
\* exactly one to consumer_restarts, makes one fresh inbox the subject of
\* the raw subscription, info.deliver and config.deliver_subject, sets
\* deliver_policy to StartSequence and opt_start_seq to sseq, sends exactly
\* one ConsumerCreate request (with that config), and leaves the recorded
\* stream_seq as it is; on a closed subscription it changes nothing and
\* sends no request.
C25_RecreateEffects ==
    [][/\ Recreated =>
              /\ ~sub.closed
              /\ Ordered'.delivery_seq = 0
              /\ info'.flow_control.heartbeat_count = 0
              /\ info'.flow_control.fc_count = 0
              /\ Restarts' = Restarts + 1
              /\ nc'.inboxes = nc.inboxes + 1
              /\ sub'.subject = nc'.inboxes
              /\ info'.deliver = nc'.inboxes
              /\ info'.config.deliver_subject = nc'.inboxes
              /\ info'.config.deliver_policy = "StartSequence"
              /\ info'.config.opt_start_seq = Ordered.stream_seq + 1
              /\ srv.reqs \subseteq srv'.reqs
              /\ NewRequests = {[inbox |-> nc'.inboxes, config |-> info'.config]}
              /\ Ordered'.stream_seq = Ordered.stream_seq
       /\ (sub.pc = "open" /\ sub.closed) =>
              /\ \A sseq \in 1..(MaxStream + 1) : resetOrderedConsumer(S, sseq) = S
              /\ ~Recreated]_vars

\* A message was accepted, a heartbeat counted, and then a gap made the
\* subscription recreate its consumer from sequence 2 on a new inbox.
C25_Witness ==
    /\ info.ordered
    /\ Restarts = 1
    /\ Ordered = [stream_seq |-> 1, delivery_seq |-> 0]
    /\ info.flow_control.heartbeat_count = 0
    /\ sub.subject = 2
    /\ info.deliver = 2
    /\ info.config.deliver_subject = 2
    /\ info.config.deliver_policy = "StartSequence"
    /\ info.config.opt_start_seq = 2
    /\ srv.reqs = {[inbox |-> 2, config |-> info.config]}

\* A closed ordered subscription.
C25_WitnessClosed ==
    /\ sub.pc = "open"
    /\ sub.closed
    /\ info.ordered
    /\ Restarts = 1

(***************************************************************************)
(* A recreate whose ConsumerCreate request fails.                          *)
(***************************************************************************)
\* The error for a failed recreate that asked for the sequence sseq.
UnableToRecreate(sseq) ==
    [code |-> "RequestError", message |-> "unable to recreate ordered consumer",
     seq |-> sseq]

\* The request whose failure a step handles.
FailedRequests == srv.reqs \ srv'.reqs

\* The failure of a recreate request is injected: an iteration that was not
\* stopped before is stopped with the error, a callback is handed it; name
\* and config stay as they were.
FailureInjected ==
    (CreateFail /\ ~sub.done) =>
        \A req \in FailedRequests :
            /\ IF sub.noIterator
               THEN /\ app'.errs = Append(app.errs, UnableToRecreate(req.config.opt_start_seq))
                    /\ app'.yielded = app.yielded
               ELSE /\ sub'.done
                    /\ sub'.err = UnableToRecreate(req.config.opt_start_seq)
                    /\ sub'.yields = sub.yields
                    /\ app' = app
            /\ info' = info

C26_WitnessCb ==
    /\ info.ordered
    /\ sub.noIterator
    /\ app.errs = <<UnableToRecreate(1)>>
    /\ Restarts = 1

(***************************************************************************)
(* Heartbeats on an ordered subscription.                                  *)
(***************************************************************************)
\* A heartbeat frame reaches the subscription, stalled-consumer header or not.
AnyHeartbeatFrame == HeartbeatFrame \/ StalledHeartbeatFrame

C27_WitnessInSequence ==
    /\ info.ordered
    /\ nc.inbound = HeartbeatMsg(1)
    /\ Ordered = [stream_seq |-> 1, delivery_seq |-> 1]
    /\ info.flow_control.heartbeat_count = 1
    /\ Restarts = 0
    /\ nc.published = <<>>

(***************************************************************************)
(* The expiration timer of a fetch.                                        *)
(***************************************************************************)
\* A fetch with expires was started.
Expiring == psub.pc = "fetching" /\ psub.args.expires > 0

\* The timer fires with the inbox subscription open: the subscription is
\* drained and the monitor cancelled, and the iterator is stopped.
ExpiryDrains ==
    (FetchExpire /\ ~sub.closed) =>
        /\ sub'.closed
        /\ sub'.done
        /\ ~psub'.timer
        /\ ~monitor'.timer
        /\ monitor'.live = 0

\* C28 (as stated): every fetch started with expires > 0 eventually
\* terminates its iterator, whatever the server sends; when the timer fires
\* with the inbox subscription open the subscription is drained and the
\* heartbeat monitor cancelled, and the iterator then ends without an error.
C28_ExpiresEndsWithoutError ==
    /\ Expiring ~> sub.done
    /\ [][ExpiryDrains]_vars
    /\ []((Expiring /\ "expires" \in psub.stopped /\ app.ended) => app.errs = <<>>)

\* C28 (amended): every fetch started with expires > 0 eventually
\* terminates its iterator, whatever the server sends; when the timer fires
\* with the inbox subscription open the subscription is drained and the
\* heartbeat monitor cancelled, and the iterator, unless it was stopped
\* before, is stopped with no error:
\* an iteration that lasts until then ends without an error unless the
\* monitor had reported missed heartbeats, whose error the application gets
\* when it reads that report, before the timer fires or after.
C28_ExpiresEndsFetch ==
    /\ Expiring ~> sub.done
    /\ [][/\ ExpiryDrains
          /\ (FetchExpire /\ ~sub.closed) =>
                 (~sub.done => sub'.err = NullErr) /\ app' = app]_vars
    /\ []((Expiring /\ "expires" \in psub.stopped /\ app.ended) =>
              \/ app.errs = <<>>
              \/ "missed" \in psub.stopped /\ app.errs = <<FetchHeartbeatError(MaxOut)>>)

\* A fetch with expires and no message ended when the timer fired.
C28_Witness ==
    /\ Expiring
    /\ psub.stopped = {"expires"}
    /\ sub.closed
    /\ app.ended
    /\ app.yielded = <<>>
    /\ app.errs = <<>>

\* A fetch with expires and idle_heartbeat ended with the error of missed
\* heartbeats, and the timer fired on the open subscription afterwards.
C28_WitnessMissed ==
    /\ Expiring
    /\ psub.stopped = {"missed", "expires"}
    /\ sub.closed
    /\ app.errs = <<FetchHeartbeatError(MaxOut)>>

(***************************************************************************)
(* Fetch: the stop conditions of qi.dispatchedFn.                          *)
(***************************************************************************)
\* A read of the fetch iterator that yielded a message to the application.
Dispatched ==
    FetchIterNext /\ Len(app'.yielded) = Len(app.yielded) + 1

LastDispatched == app'.yielded[Len(app'.yielded)]

\* One of the three conditions holds once the message was counted.
StopDue ==
    \/ Len(sub'.yields) = 0 /\ LastDispatched.pending = 0
    \/ psub'.wants = psub'.received
    \/ psub.args.max_bytes > 0 /\ psub'.receivedBytes >= psub.args.max_bytes

\* C29 (as stated): after each message is dispatched the iterator is stopped
\* at once if it was the only pending message and its info.pending == 0, or
\* received equals batch, or max_bytes > 0 and the bytes received reached it,
\* whether or not an expiration timer is running.
C29_StopAfterDispatch ==
    [][(Dispatched /\ StopDue) => sub'.done]_vars

\* C29 (amended): the three conditions stop the iterator at once unless an
\* expiration timer is running and the message's info.pending == 0; in that
\* case the dispatch stops nothing and records no cause, whichever of the
\* conditions hold, and the fetch is left to the expiration. A dispatch for
\* which none of the conditions holds stops nothing either.
C29_StopAfterDispatchUnlessTimer ==
    [][Dispatched =>
          IF psub.timer /\ LastDispatched.pending = 0
          THEN sub'.done = sub.done /\ psub'.stopped = psub.stopped
          ELSE IF StopDue THEN sub'.done
          ELSE sub'.done = sub.done /\ psub'.stopped = psub.stopped]_vars

\* A fetch with expires was handed the last message of the stream, which
\* fills its batch, and its iterator is still running.
C29_Witness ==
    /\ psub.pc = "fetching"
    /\ psub.timer
    /\ psub.received = psub.wants
    /\ Len(app.yielded) = 1
    /\ app.yielded[1].pending = 0
    /\ sub.yields = <<>>
    /\ ~sub.done
    /\ psub.stopped = {}

\* A fetch without expires was stopped by the dispatch of its last message.
C29_WitnessStopped ==
    /\ psub.pc = "fetching"
    /\ ~psub.timer
    /\ psub.args.expires = 0
    /\ Len(app.yielded) = 1
    /\ sub.done
    /\ "batch" \in psub.stopped

(***************************************************************************)
(* Cancellation: destroy drains first, and repeats change nothing.         *)
(***************************************************************************)
\* A step of unsubscribe(), drain() or destroy(), or of what they started.
CancelStep == psub' # psub

\* destroy() was called in this step.
DestroyCalled ==
    psub'.cancels > psub.cancels /\ psub.pc = "idle" /\ psub'.pc # "idle"
        /\ psub'.op = "destroy"

DeleteSent == Len(psub'.deletes) = Len(psub.deletes) + 1

C30_WitnessDurable ==
    /\ sub.pc = "open"
    /\ sub.closed
    /\ psub.durable_name = "d"
    /\ psub.cancels = 3
    /\ psub.drains = 0
    /\ psub.op = "destroy"
    /\ Len(psub.deletes) = 1
    /\ psub.deletes[1].durable = "d"
    /\ psub.threw = 0
    /\ ~srv.cons.exists

(***************************************************************************)
(* Auto-ack as the dispatched hook of a subscription.                      *)
(***************************************************************************)
\* C31: autoAckJsMsg is the dispatched hook exactly when the resolved ack
\* policy is not None and the application did not ask for manual ack; with
\* it every message handed to the application is acked once, in the step
\* that hands it over, and nothing else is acked; without it the client
\* sends no ack.
C31_AutoAckOncePerYield ==
    /\ [](sub.pc \in {"adding", "open"} =>
            /\ sub.autoAck <=> (~opts.mack /\ info.config.ack_policy # "None")
            /\ nc.acks = IF sub.autoAck THEN Len(app.yielded) ELSE 0)
    /\ [][nc'.acks # nc.acks =>
             /\ sub.autoAck
             /\ nc'.acks = nc.acks + 1
             /\ Len(app'.yielded) = Len(app.yielded) + 1]_vars

\* A subscription with ack policy Explicit and no manual ack handed over two
\* messages and acked both.
C31_Witness ==
    /\ sub.pc = "open"
    /\ sub.autoAck
    /\ info.config.ack_policy = "Explicit"
    /\ Len(app.yielded) = 2
    /\ nc.acks = 2

\* A subscription with manual ack handed over two messages and acked none.
C31_WitnessManual ==
    /\ sub.pc = "open"
    /\ opts.mack
    /\ info.config.ack_policy = "Explicit"
    /\ Len(app.yielded) = 2
    /\ nc.acks = 0

(***************************************************************************)
(* The monitor after an escalation.                                        *)
(***************************************************************************)
\* An escalation that follows an earlier one with no frame in between.
FurtherEscalation == monitor.missed >= MaxOut /\ Escalation

C32_WitnessOrdered ==
    /\ sub.pc = "open"
    /\ info.ordered
    /\ monitor.missed = MaxOut + 1
    /\ Restarts = 2
    /\ app.yielded = <<>>
    /\ app.errs = <<>>
    /\ monitor.timer

\* An iteration that is not ordered was stopped by the first escalation and
\* its monitor with it.
C32_WitnessIterator ==
    /\ sub.pc = "open"
    /\ ~info.ordered
    /\ ~sub.noIterator
    /\ sub.err = IdleHeartbeatMissedError(MaxOut)
    /\ monitor.set
    /\ ~monitor.timer
    /\ monitor.live = 0

(***************************************************************************)
(* Recreates whose answers cross.                                          *)
(***************************************************************************)
\* Every recreate request was answered, none with a failure.
AllAnswered ==
    /\ sub.pc = "open"
    /\ info.ordered
    /\ Restarts >= 2
    /\ srv.reqs = {}
    /\ sub.err = NullErr
    /\ app.errs = <<>>

\* C33: when a second recreate was started while the answer to an earlier
\* one was outstanding, then once all answers have arrived, in whatever
\* order, info.config.deliver_subject is info.deliver, the inbox the raw
\* subscription listens on, and info.name is the name of the consumer the
\* latest recreate created.
C33_LatestRecreateAdopted ==
    AllAnswered =>
        /\ info.deliver = sub.subject
        /\ info.config.deliver_subject = info.deliver
        /\ info.name = ConsumerName(info.deliver)

(***************************************************************************)
(* Fetch: what stays behind after a status frame stopped the iterator.     *)
(***************************************************************************)
\* The callback stopped the iterator for an error status frame.
StatusStopped ==
    psub.pc = "fetching" /\ psub.stopped \cap {"status", "terminal"} # {}

\* C34: after an error status frame (terminal or not) stopped a fetch
\* iterator, the inbox subscription is eventually closed and the heartbeat
\* monitor eventually cancelled, no timer of the fetch stays set, and no
\* heartbeat-missed item is queued in the stopped iterator.
C34_StatusStopReleases ==
    /\ StatusStopped ~> (sub.closed /\ monitor.live = 0 /\ ~psub.timer)
    /\ [][sub.done => Len(sub'.yields) <= Len(sub.yields)]_vars

\* The part of C34 about the monitor and the timer alone.
StatusStopCancelsTimers ==
    /\ StatusStopped ~> (monitor.live = 0 /\ ~psub.timer)
    /\ [][sub.done => Len(sub'.yields) <= Len(sub.yields)]_vars

(***************************************************************************)
(* subscribe() and pullSubscribe(): a failure of _maybeCreateConsumer.     *)
(***************************************************************************)
\* The call fails in this step after it built its subscription, that is,
\* inside _maybeCreateConsumer.
MaybeCreateFails ==
    sub.pc # "failed" /\ sub'.pc = "failed" /\ sub'.created

\* C35: when _maybeCreateConsumer fails inside subscribe() or
\* pullSubscribe(), for a bind to a missing durable or for a failed
\* ConsumerAdd, the subscription built on the deliver inbox is unsubscribed
\* in the step that throws the error, and no heartbeat monitor is set up for
\* it then or later.
C35_FailedCreateUnsubscribes ==
    /\ [][MaybeCreateFails =>
             /\ sub'.closed /\ sub'.done
             /\ sub'.subject = info'.deliver
             /\ sub'.error \in {"unable to bind - durable consumer doesn't exist",
                                "ConsumerAdd failed"}
             /\ monitor' = NoMonitor]_vars
    /\ [](sub.pc = "failed" => monitor = NoMonitor /\ (sub.created => sub.closed))

\* subscribe() with an idle heartbeat whose ConsumerAdd failed: the
\* subscription is unsubscribed and it has no monitor.
C35_Witness ==
    /\ opts.api = "subscribe"
    /\ info.config.idle_heartbeat > 0
    /\ sub.pc = "failed"
    /\ sub.error = "ConsumerAdd failed"
    /\ sub.created /\ sub.closed
    /\ srv.adds = 1
    /\ monitor = NoMonitor

\* pullSubscribe() with a bind to a durable the server does not have.
C35_WitnessBind ==
    /\ opts.api = "pullSubscribe"
    /\ opts.isBind
    /\ sub.pc = "failed"
    /\ sub.error = "unable to bind - durable consumer doesn't exist"
    /\ sub.created /\ sub.closed
    /\ srv.adds = 0
    /\ monitor = NoMonitor
=============================================================================
